---- MODULE Spec2Model ----
(***************************************************************************)
(* Turn-based simulation core of the gruid roguelike tutorial: the entity  *)
(* registry (ECS), field of view, monster AI, combat, statuses, items,     *)
(* inventory and the UI modes that drive the turn scheduler.               *)
(*                                                                         *)
(* A point is a pair <<x, y>>.  The map of a session is static: a small    *)
(* cave made of a corridor that loops around a block of wall cells.        *)
(***************************************************************************)
EXTENDS Integers, Sequences, FiniteSets, TLC

(***************************************************************************)
(* Bounds of the model.                                                    *)
(***************************************************************************)
\* width and height of the map grid (the program uses 80 x 21)
MapWidth == 3
MapHeight == 3
\* number of input messages handled from an initial state
MaxInputs == 2

(***************************************************************************)
(* Program constants.                                                      *)
(***************************************************************************)
maxLOS == 10
BlockedCost == 8
FreeCost == 1
maxSize == 26

noMonster == -1

(***************************************************************************)
(* Geometry (gruid.Point, gruid.Range, paths.DistanceManhattan).           *)
(***************************************************************************)
Abs(n) == IF n < 0 THEN -n ELSE n

Min2(a, b) == IF a < b THEN a ELSE b

\* the greatest element of a nonempty set of integers
MaxOf(S) == CHOOSE x \in S : \A y \in S : y <= x

DistanceManhattan(p, q) == Abs(p[1] - q[1]) + Abs(p[2] - q[2])

\* m.Grid.Range(): every cell of the grid
GridRange == (0 .. MapWidth - 1) \X (0 .. MapHeight - 1)

\* The terrain: the border of the grid is a corridor of floor cells, the
\* interior is wall.
IsWall(p) == /\ p[1] > 0 /\ p[1] < MapWidth - 1
             /\ p[2] > 0 /\ p[2] < MapHeight - 1

\* the cells of rl.Grid the map uses
Wall == 0
Floor == 1

\* Map.Grid of the games explored
Terrain == [p \in GridRange |-> IF IsWall(p) THEN Wall ELSE Floor]

FloorCells == {p \in GridRange : ~IsWall(p)}

\* a faulty Walkable that takes every cell of the grid for a floor cell: C39
\* fails with it
WalkableWalls(p) == p \in GridRange

\* Map.Walkable: Grid.At(p) == Floor; At returns Wall (the zero cell) for a
\* point outside the grid.
Walkable(p) == p \in GridRange /\ ~IsWall(p)

Shift(p, d) == <<p[1] + d[1], p[2] + d[2]>>

CardinalDeltas == {<<-1, 0>>, <<1, 0>>, <<0, -1>>, <<0, 1>>}

\* aiPath.Neighbors: the walkable cardinal neighbours of q
Neighbors(q) == {r \in {Shift(q, d) : d \in CardinalDeltas} : Walkable(r)}

(***************************************************************************)
(* Field of view (rl.FOV.SSCVisionMap as called by UpdateFOV).  Symmetric  *)
(* shadow casting lights a cell p from o when the segment joining the two  *)
(* cell centres crosses the interior of no impassable cell.  Coordinates   *)
(* are doubled so that cell corners are integers.                          *)
(***************************************************************************)
Side(o, p, c) == (p[1] - o[1]) * (c[2] - 2 * o[2]) - (p[2] - o[2]) * (c[1] - 2 * o[1])

Corners(q) == {<<2 * q[1] + a, 2 * q[2] + b>> : a \in {-1, 1}, b \in {-1, 1}}

Between(a, x, b) == (a <= x /\ x <= b) \/ (b <= x /\ x <= a)

\* the segment o-p crosses the interior of cell q
Crosses(o, p, q) == /\ q # o /\ q # p
                    /\ Between(o[1], q[1], p[1]) /\ Between(o[2], q[2], p[2])
                    /\ \E c \in Corners(q) : Side(o, p, c) > 0
                    /\ \E c \in Corners(q) : Side(o, p, c) < 0

\* passable := func(p) bool { return g.Map.Grid.At(p) != Wall }
Passable(p) == ~IsWall(p)

\* the FOV range set by UpdateFOV: the square window of radius maxLOS around
\* pp, intersected with the map
FOVRange(pp) == {p \in GridRange : /\ Abs(p[1] - pp[1]) <= maxLOS
                                   /\ Abs(p[2] - pp[2]) <= maxLOS}

\* the cells lit from each cell of the map
VisionTable ==
  [pp \in GridRange |->
     {p \in FOVRange(pp) : \A q \in GridRange : Crosses(pp, p, q) => Passable(q)}]

\* the cells lit by SSCVisionMap(pp, maxLOS, passable, false)
SSCVisionMap(pp) == VisionTable[pp]

(***************************************************************************)
(* Paths (paths.PathRange.AstarPath with the aiPath cost policy).  A path  *)
(* is a sequence of points from the source to the target, both included.   *)
(***************************************************************************)
RECURSIVE SimplePaths(_, _, _)
SimplePaths(from, to, visited) ==
  IF from = to THEN {<<from>>}
  ELSE UNION {{<<from>> \o s : s \in SimplePaths(n, to, visited \cup {from})} :
              n \in Neighbors(from) \ (visited \cup {from})}

\* the paths without a repeated cell between two cells of the map
PathTable == [from \in GridRange |-> [to \in GridRange |-> SimplePaths(from, to, {})]]

\* a faulty Cost that charges nothing: C30 fails with it
PathCostFree(path, blocked) == 0

RECURSIVE PathCost(_, _)
\* the sum of aiPath.Cost over the steps of a path; blocked is the set of
\* cells where NoBlockingEntityAt is false
PathCost(path, blocked) ==
  IF Len(path) <= 1 THEN 0
  ELSE (IF path[2] \in blocked THEN BlockedCost ELSE FreeCost) + PathCost(Tail(path), blocked)

\* the paths AstarPath may return: the cheapest ones (nil when a point is
\* outside the path range or the target cannot be reached)
AstarPath(from, to, blocked) ==
  IF from \notin GridRange \/ to \notin GridRange THEN {<<>>}
  ELSE LET all == PathTable[from][to]
       IN IF all = {} THEN {<<>>}
          ELSE {s \in all : \A t \in all : PathCost(s, blocked) <= PathCost(t, blocked)}

(***************************************************************************)
(* State.                                                                  *)
(***************************************************************************)
VARIABLES
  Entities,   \* ECS.Entities: id -> entity (its kind and the item's parameters)
  Positions,  \* ECS.Positions: id -> point, for the entities on the map
  Fighter,    \* ECS.Fighter: id -> [HP, MaxHP, Power, Defense]
  AI,         \* ECS.AI: id -> cached path (AI.Path)
  Name,       \* ECS.Name: id -> name
  Style,      \* ECS.Style: id -> [Rune, Color]
  Inventory,  \* ECS.Inventory: id -> sequence of item ids (Inventory.Items)
  Statuses,   \* ECS.Statuses: id -> (status -> remaining turns)
  NextID,     \* ECS.NextID: the next available id
  files,      \* the data directory: file name -> content
  save,       \* the call of SaveFile under way: its position, data and count
  Grid,       \* Map.Grid: cell -> Wall or Floor
  Explored,   \* Map.Explored: the set of cells marked explored
  FOV,        \* Player.FOV: the cells lit by the last SSCVisionMap
  Log,        \* game.Log: sequence of [Text, Dups]
  mode,       \* model.mode
  targ,       \* model.targ: [item, radius] (the cursor is the chosen target)
  pc,         \* where the turn scheduler stands: "idle" or "range"
  todo,       \* EndTurn: the monsters the range loop has yet to visit
  caller,     \* EndTurn: the handler that called it
  inputs,     \* number of input messages handled so far
  trace       \* the steps of the last handled message, in order

vars == <<Entities, Positions, Fighter, AI, Name, Style, Inventory, Statuses, NextID, files, save, Grid, Explored,
          FOV, Log, mode, targ, pc, todo, caller, inputs, trace>>

PlayerID == 0

StatusConfused == 0

(***************************************************************************)
(* ECS queries.                                                            *)
(***************************************************************************)
\* ECS.PP
PP == Positions[PlayerID]

\* ECS.Alive
Alive(i) == i \in DOMAIN Fighter /\ Fighter[i].HP > 0

\* ECS.Dead
Dead(i) == i \in DOMAIN Fighter /\ Fighter[i].HP <= 0

\* ECS.PlayerDied
PlayerDied == Dead(PlayerID)

IsMonster(i) == i \in DOMAIN Entities /\ Entities[i].kind = "Monster"

IsConsumable(i) == i \in DOMAIN Entities /\ Entities[i].kind \in
                     {"HealingPotion", "LightningScroll", "ConfusionScroll", "FireballScroll"}

\* a faulty MonstersAt that leaves out the Alive test: C6 fails with it
MonstersAtAny(p) == {i \in DOMAIN Positions : Positions[i] = p /\ IsMonster(i)}

\* the living monsters standing at p
MonstersAt(p) == {i \in DOMAIN Positions : Positions[i] = p /\ Alive(i) /\ IsMonster(i)}

\* a faulty MonsterAt that never finds a monster: C1 fails with it
MonsterAtNone(p) == {noMonster}

\* ECS.MonsterAt: the values the range loop over Positions can return
MonsterAt(p) == IF MonstersAt(p) = {} THEN {noMonster} ELSE MonstersAt(p)

\* ECS.NoBlockingEntityAt
NoBlockingEntityAt(p) == PP # p /\ \A i \in MonsterAt(p) : ~Alive(i)

\* ECS.Status
Status(i, st) == i \in DOMAIN Statuses /\ st \in DOMAIN Statuses[i]

\* a faulty InFOV that takes every cell to be visible: C13 fails with it
InFOVAlways(p) == TRUE

\* a faulty InFOV without the distance test: C38 fails with it
InFOVLit(p) == p \in FOV

\* game.InFOV
InFOV(p) == p \in FOV /\ DistanceManhattan(PP, p) <= maxLOS

\* the cells aiPath.Cost charges the blocked cost for
BlockedCells == {q \in GridRange : ~NoBlockingEntityAt(q)}

(***************************************************************************)
(* Log (game.log, game.Logf).                                              *)
(***************************************************************************)
\* game.log: a message equal to the last entry's is counted as a duplicate
LogAdd(lg, text) ==
  IF Len(lg) > 0 /\ lg[Len(lg)].Text = text
  THEN [lg EXCEPT ![Len(lg)].Dups = @ + 1]
  ELSE Append(lg, [Text |-> text, Dups |-> 0])

RECURSIVE LogAddAll(_, _)
LogAddAll(lg, texts) ==
  IF texts = <<>> THEN lg ELSE LogAddAll(LogAdd(lg, Head(texts)), Tail(texts))

\* number of messages logged so far
RECURSIVE LogCount(_)
LogCount(lg) == IF lg = <<>> THEN 0 ELSE 1 + lg[1].Dups + LogCount(Tail(lg))

(***************************************************************************)
(* Combat (game.BumpAttack) and healing (fighter.Heal).                    *)
(***************************************************************************)
\* damage := fi.Power - fj.Defense
AttackDamage(fi, fj) == fi.Power - fj.Defense

\* a faulty BumpAttack that subtracts the damage whatever its sign: C10 fails
\* with it
AttackedFighterSigned(fi, fj) == [fj EXCEPT !.HP = @ - AttackDamage(fi, fj)]

\* the defender's fighter after BumpAttack
AttackedFighter(fi, fj) ==
  IF AttackDamage(fi, fj) > 0 THEN [fj EXCEPT !.HP = @ - AttackDamage(fi, fj)] ELSE fj

\* the message BumpAttack logs
AttackText(i, j) ==
  IF AttackDamage(Fighter[i], Fighter[j]) > 0
  THEN <<"attacks for damage", Name[i], Name[j], AttackDamage(Fighter[i], Fighter[j])>>
  ELSE <<"attacks but does no damage", Name[i], Name[j]>>

\* game.BumpAttack(i, j): the fighters after the attack
BumpAttack(i, j) == [Fighter EXCEPT ![j] = AttackedFighter(Fighter[i], Fighter[j])]

\* a faulty Heal that does not stop at MaxHP: C5 fails with it
HealedFighterUnclamped(fi, n) == [fi EXCEPT !.HP = fi.HP + n]

\* fighter.Heal(n): the fighter after healing, and the amount returned
HealedFighter(fi, n) == IF fi.HP + n > fi.MaxHP THEN [fi EXCEPT !.HP = fi.MaxHP]
                        ELSE [fi EXCEPT !.HP = fi.HP + n]

\* a faulty Heal that returns the amount asked for, whatever was healed: C11
\* fails with it
HealAmountAsked(fi, n) == n

HealAmount(fi, n) == IF fi.HP + n > fi.MaxHP THEN n - (fi.HP + n - fi.MaxHP) ELSE n

(***************************************************************************)
(* Statuses (Statuses.NextTurn, Statuses.Put, ECS.StatusesNextTurn,        *)
(* ECS.PutStatus).                                                         *)
(***************************************************************************)
\* a faulty NextTurn that deletes a status when its counter reaches 0: C7
\* fails with it
NextTurnNoGrace(sts) == [st \in {s \in DOMAIN sts : sts[s] > 1} |-> sts[st] - 1]

\* Statuses.NextTurn: a status at 0 is deleted, the others lose one turn
NextTurn(sts) == [st \in {s \in DOMAIN sts : sts[s] # 0} |-> sts[st] - 1]

\* ECS.StatusesNextTurn
StatusesNextTurn(all) == [i \in DOMAIN all |-> NextTurn(all[i])]

\* a faulty Put that adds the turns to the counter the status has: C21 fails
\* with it
PutStacked(sts, st, n) ==
  [s \in DOMAIN sts \cup {st} |->
     IF s = st THEN (IF st \in DOMAIN sts THEN sts[st] + n ELSE n) ELSE sts[s]]

\* Statuses.Put
Put(sts, st, n) == [s \in DOMAIN sts \cup {st} |-> IF s = st THEN n ELSE sts[s]]

\* ECS.PutStatus
PutStatus(all, i, st, n) ==
  [j \in DOMAIN all \cup {i} |->
     IF j = i THEN Put(IF i \in DOMAIN all THEN all[i] ELSE <<>>, st, n) ELSE all[j]]

(***************************************************************************)
(* Field of view of the player (game.UpdateFOV).                           *)
(***************************************************************************)
\* the cells UpdateFOV marks explored for a player standing at pp
SeenFrom(pp) == {p \in SSCVisionMap(pp) : DistanceManhattan(p, pp) <= maxLOS}

\* a faulty UpdateFOV that keeps as explored only what is in sight: C20 fails
\* with it
UpdateFOVForgetful(pp) == /\ FOV' = SSCVisionMap(pp)
                          /\ Explored' = SeenFrom(pp)

\* a faulty EndTurn that does not recompute the FOV: C4 fails with it
UpdateFOVSkipped(pp) == UNCHANGED <<FOV, Explored>>

\* game.UpdateFOV for a player standing at pp
UpdateFOV(pp) == /\ FOV' = SSCVisionMap(pp)
                 /\ Explored' = Explored \cup SeenFrom(pp)

(***************************************************************************)
(* Items (Consumable.Activate).  An activation yields an outcome: the      *)
(* error returned ("" for nil) and the fighters, statuses and log it       *)
(* leaves.  Where the code ranges over a Go map, every order is possible.  *)
(***************************************************************************)
nil == "nil"

Outcome(err, F, S, L) == [err |-> err, F |-> F, S |-> S, L |-> L]

Failure(err) == Outcome(err, Fighter, Statuses, Log)

\* ECS.GetName
GetName(i) == IF Dead(i) THEN "corpse" ELSE Name[i]

\* the orders in which a range loop can visit the set S
Orders(S) == {f \in [1 .. Cardinality(S) -> S] : \A a, b \in DOMAIN f : f[a] = f[b] => a = b}

\* HealingPotion.Activate
HealingPotionActivate(e, actor) ==
  IF actor \notin DOMAIN Fighter THEN {Failure("cannot use healing potions.")}
  ELSE LET hp == HealAmount(Fighter[actor], e.Amount)
           F == [Fighter EXCEPT ![actor] = HealedFighter(Fighter[actor], e.Amount)]
       IN IF hp <= 0 THEN {Outcome("Your health is already full.", F, Statuses, Log)}
          ELSE {Outcome("", F, Statuses,
                        IF actor = PlayerID THEN LogAdd(Log, <<"You regained HP", hp>>) ELSE Log)}

\* the fighters the lightning loop does not skip
LightningCandidates(actor) ==
  {i \in DOMAIN Fighter : i # actor /\ ~Dead(i) /\ InFOV(Positions[i])}

\* a faulty lightning loop that keeps the last candidate in range, not the
\* closest: C12 fails with it
LightningTargetsAny(e, actor) ==
  {i \in LightningCandidates(actor) :
     DistanceManhattan(Positions[i], Positions[actor]) < e.Range + 1}

\* the targets the lightning loop can end with: the closest candidates in range
LightningTargets(e, actor) ==
  LET d(i) == DistanceManhattan(Positions[i], Positions[actor])
      near == {i \in LightningCandidates(actor) : d(i) < e.Range + 1}
  IN {i \in near : \A j \in near : d(i) <= d(j)}

\* LightningScroll.Activate
LightningScrollActivate(e, actor) ==
  IF LightningTargets(e, actor) = {} THEN {Failure("No enemy within range.")}
  ELSE {Outcome("", [Fighter EXCEPT ![t].HP = @ - e.Damage], Statuses,
                LogAdd(Log, <<"A lightning bolt strikes", GetName(t)>>)) :
        t \in LightningTargets(e, actor)}

\* ConfusionScroll.Activate
ConfusionScrollActivate(e, actor, target) ==
  IF target = nil THEN {Failure("You have to chose a target.")}
  ELSE IF ~InFOV(target) THEN {Failure("You cannot target what you cannot see.")}
  ELSE IF target = PP THEN {Failure("You cannot confuse yourself.")}
  ELSE {IF i <= 0 \/ ~Alive(i) THEN Failure("You have to target a monster.")
        ELSE Outcome("", Fighter, PutStatus(Statuses, i, StatusConfused, e.Turns),
                     LogAdd(Log, <<"looks confused (scroll).", GetName(i)>>)) :
        i \in MonsterAt(target)}

\* a faulty fireball loop without the Dead test: C14 fails with it
FireballHitsDead(e, p) ==
  {i \in DOMAIN Fighter : DistanceManhattan(Positions[i], p) <= e.Radius}

\* the fighters a fireball aimed at p hits
FireballHits(e, p) ==
  {i \in DOMAIN Fighter : ~Dead(i) /\ DistanceManhattan(Positions[i], p) <= e.Radius}

\* FireballScroll.Activate
FireballScrollActivate(e, actor, target) ==
  IF target = nil THEN {Failure("You have to chose a target.")}
  ELSE IF ~InFOV(target) THEN {Failure("You cannot target what you cannot see.")}
  ELSE IF FireballHits(e, target) = {} THEN {Failure("There are no targets in the radius.")}
  ELSE {Outcome("", [i \in DOMAIN Fighter |->
                       IF i \in FireballHits(e, target)
                       THEN [Fighter[i] EXCEPT !.HP = @ - e.Damage] ELSE Fighter[i]],
                Statuses,
                LogAddAll(Log, [k \in DOMAIN o |-> <<"is engulfed in flames.", GetName(o[k])>>])) :
        o \in Orders(FireballHits(e, target))}

\* e.Activate(g, itemAction{Actor: actor, Target: target})
Activate(e, actor, target) ==
  CASE e.kind = "HealingPotion" -> HealingPotionActivate(e, actor)
    [] e.kind = "LightningScroll" -> LightningScrollActivate(e, actor)
    [] e.kind = "ConfusionScroll" -> ConfusionScrollActivate(e, actor, target)
    [] e.kind = "FireballScroll" -> FireballScrollActivate(e, actor, target)

(***************************************************************************)
(* Inventory (game.InventoryAdd, InventoryRemove, InventoryActivate,       *)
(* TargetingRadius).  Slots are numbered from 0 as in the code.            *)
(***************************************************************************)
\* a faulty removal that only truncates the slice: C17 fails with it
RemoveSlotLast(items, n) == SubSeq(items, 1, Len(items) - 1)

\* inv.Items[n] = inv.Items[len-1]; inv.Items = inv.Items[:len-1]
RemoveSlot(items, n) ==
  SubSeq([items EXCEPT ![n + 1] = items[Len(items)]], 1, Len(items) - 1)

\* a faulty InventoryAdd without the capacity test: C24 fails with it
InventoryFullNever(actor) == FALSE

\* game.InventoryAdd: len(inv.Items) >= maxSize
InventoryFull(actor) == Len(Inventory[actor]) >= maxSize

\* game.InventoryAdd(PlayerID, i): the inventories and the positions it leaves
PickedInventory(i) == [Inventory EXCEPT ![PlayerID] = Append(@, i)]

\* a faulty InventoryAdd that leaves the item on the map: C35 fails with it
PickedPositionsKept(i) == Positions

\* delete(g.ECS.Positions, i)
PickedPositions(i) == [j \in DOMAIN Positions \ {i} |-> Positions[j]]

\* game.InventoryRemove(PlayerID, n): the inventories and the positions it
\* leaves
DroppedInventory(n) == [Inventory EXCEPT ![PlayerID] = RemoveSlot(@, n)]

\* a faulty InventoryRemove that does not put the item on the map: C16 fails
\* with it
DroppedPositionsNone(n) == Positions

DroppedPositions(n) ==
  LET i == Inventory[PlayerID][n + 1]
  IN [j \in DOMAIN Positions \cup {i} |-> IF j = i THEN Positions[PlayerID] ELSE Positions[j]]

\* game.TargetingRadius
TargetingRadius(n) ==
  LET items == Inventory[PlayerID]
  IN IF Len(items) <= n THEN -1
     ELSE LET e == Entities[items[n + 1]]
          IN CASE e.kind = "ConfusionScroll" -> 0
               [] e.kind = "FireballScroll" -> e.Radius
               [] OTHER -> -1

\* game.InventoryActivateWithTarget: the outcomes, each with the inventory left
InventoryActivateWithTarget(actor, n, target) ==
  LET items == Inventory[actor]
  IN IF Len(items) <= n
     THEN {[out |-> Failure("Empty slot."), items |-> items]}
     ELSE LET i == items[n + 1]
              outs == IF IsConsumable(i) THEN Activate(Entities[i], actor, target)
                      ELSE {Outcome("", Fighter, Statuses, Log)}
          IN {[out |-> o, items |-> IF o.err # "" THEN items ELSE RemoveSlot(items, n)] :
              o \in outs}

(***************************************************************************)
(* Initial states: a game as NewGame builds it (a player, monsters with    *)
(* their AI, items), taken at a moment of the session where the player     *)
(* may already be wounded and carry an item.                               *)
(***************************************************************************)
PlayerFighter == [HP |-> 30, MaxHP |-> 30, Power |-> 5, Defense |-> 2]

OrcFighter == [HP |-> 10, MaxHP |-> 10, Power |-> 3, Defense |-> 0]

TrollFighter == [HP |-> 16, MaxHP |-> 16, Power |-> 4, Defense |-> 1]

\* the items PlaceItems creates
HealingPotion == [kind |-> "HealingPotion", Amount |-> 4]

ConfusionScroll == [kind |-> "ConfusionScroll", Turns |-> 10]

FireballScroll == [kind |-> "FireballScroll", Damage |-> 12, Radius |-> 3]

LightningScroll == [kind |-> "LightningScroll", Range |-> 5, Damage |-> 20]

ItemName(e) == CASE e.kind = "HealingPotion" -> "health potion"
                 [] e.kind = "ConfusionScroll" -> "confusion scroll"
                 [] e.kind = "FireballScroll" -> "fireball scroll"
                 [] e.kind = "LightningScroll" -> "lightning scroll"

\* the style given to an entity of that name when it is created (NewGame,
\* SpawnMonsters, PlaceItems through AddItem)
NameStyle(name) ==
  CASE name = "player" -> [Rune |-> "@", Color |-> "ColorPlayer"]
    [] name = "orc" -> [Rune |-> "o", Color |-> "ColorMonster"]
    [] name = "troll" -> [Rune |-> "T", Color |-> "ColorMonster"]
    [] name = "health potion" -> [Rune |-> "!", Color |-> "ColorConsumable"]
    [] OTHER -> [Rune |-> "?", Color |-> "ColorConsumable"]

Species == {"orc", "troll"}

SpeciesFighter(sp) == IF sp = "orc" THEN OrcFighter ELSE TrollFighter

FarCorner == <<MapWidth - 1, MapHeight - 1>>

noTarget == [item |-> 0, radius |-> 0]

Event(op, id) == [op |-> op, id |-> id]

\* the radius of the targeting started for item e (Targetter.TargetingRadius)
ItemRadius(e) == IF e.kind = "FireballScroll" THEN e.Radius ELSE 0

\* the data directory without file, and no call of SaveFile under way
NoFiles == <<>>

NoSave == [pc |-> "none", data |-> <<>>, prev |-> <<>>, n |-> 0]

\* php: the player's HP; p1, hp1, conf1: position, HP and remaining turns of
\* confusion (-1: not confused) of the first monster, an orc; p2, sp2: position
\* and species of the second monster; item3: the item with id 3; md: the UI
\* mode; held: the inventory, made of item 3 and of healing potions with ids
\* from 5 on; path1: the path the first monster has cached
InitPaths(p1, conf1, p2, sp2, item3, md, held, path1) ==
  LET more == {held[k] : k \in DOMAIN held} \ {3}
  IN
  /\ Entities = (0 :> [kind |-> "Player"] @@ 1 :> [kind |-> "Monster"]
                 @@ 2 :> [kind |-> "Monster"] @@ 3 :> item3 @@ 4 :> HealingPotion
                 @@ [i \in more |-> HealingPotion])
  /\ Positions = (0 :> <<0, 0>> @@ 1 :> p1 @@ 2 :> p2 @@ 4 :> <<0, 0>>)
  /\ AI = (1 :> path1 @@ 2 :> <<>>)
  /\ Name = (0 :> "player" @@ 1 :> "orc" @@ 2 :> sp2 @@ 3 :> ItemName(item3)
             @@ 4 :> "health potion" @@ [i \in more |-> "health potion"])
  /\ Inventory = (0 :> held)
  /\ Statuses = IF conf1 < 0 THEN <<>> ELSE (1 :> (StatusConfused :> conf1))
  /\ Explored = SeenFrom(<<0, 0>>)
  /\ FOV = SSCVisionMap(<<0, 0>>)
  /\ Log = <<>>
  /\ mode = md
  /\ targ = IF md = "modeTargeting" THEN [item |-> 0, radius |-> ItemRadius(item3)]
            ELSE noTarget
  /\ pc = "idle"
  /\ todo = {}
  /\ caller = "none"
  /\ inputs = 0
  /\ trace = <<>>
  /\ Grid = Terrain
  /\ files = NoFiles
  /\ save = NoSave
  /\ NextID = MaxOf(DOMAIN Entities) + 1
  /\ Style = [i \in DOMAIN Name |-> NameStyle(Name[i])]

InitBase(p1, conf1, p2, sp2, item3, md, held) ==
  InitPaths(p1, conf1, p2, sp2, item3, md, held, <<>>)

InitOther(p1, conf1, p2, sp2, item3, md) == InitBase(p1, conf1, p2, sp2, item3, md, <<3>>)

InitGame(php, p1, hp1, conf1, p2, sp2, item3, md) ==
  /\ Fighter = (0 :> [PlayerFighter EXCEPT !.HP = php]
                @@ 1 :> [OrcFighter EXCEPT !.HP = hp1]
                @@ 2 :> SpeciesFighter(sp2))
  /\ InitOther(p1, conf1, p2, sp2, item3, md)

\* HP values of the player at the start of the explored inputs
InitPlayerHP == {30, 1}

\* the player awaits a key with both monsters in the field of view
InitNormal ==
  \E php \in InitPlayerHP, p1 \in {<<1, 0>>, <<2, 0>>}, hp1 \in {10, 5} :
    InitGame(php, p1, hp1, -1, <<0, 1>>, "troll", HealingPotion, "modeNormal")

\* the player awaits a key with the second monster out of the field of view
InitFar ==
  \E p1 \in {<<1, 0>>, <<2, 0>>} :
    InitGame(30, p1, 10, -1, FarCorner, "orc", HealingPotion, "modeNormal")

\* a menu or the targeting is open on the item held
InitMenu ==
  \E php \in InitPlayerHP,
     mi \in {<<"modeInventoryActivate", HealingPotion>>,
             <<"modeInventoryActivate", LightningScroll>>,
             <<"modeInventoryActivate", FireballScroll>>,
             <<"modeInventoryDrop", HealingPotion>>,
             <<"modeTargeting", ConfusionScroll>>,
             <<"modeTargeting", FireballScroll>>} :
    InitGame(php, <<1, 0>>, 10, -1, <<0, 1>>, "troll", mi[2], mi[1])

\* the use menu is open on a healing potion and the player is lightly wounded
InitWounded ==
  InitGame(28, <<1, 0>>, 10, -1, <<0, 1>>, "troll", HealingPotion, "modeInventoryActivate")

\* the three fighters of the initial states
InitFighters == (0 :> PlayerFighter @@ 1 :> OrcFighter @@ 2 :> TrollFighter)

\* the inventory is full (item 3 and the potions 5, 6, ...) and a potion lies
\* on the player's cell
InitFull ==
  /\ Fighter = InitFighters
  /\ InitBase(<<1, 0>>, -1, <<0, 1>>, "troll", HealingPotion, "modeNormal",
              [k \in 1..maxSize |-> IF k = 1 THEN 3 ELSE k + 3])

\* a menu is open on an empty inventory
InitEmpty ==
  \E md \in {"modeInventoryActivate", "modeInventoryDrop"} :
    /\ Fighter = InitFighters
    /\ InitBase(<<1, 0>>, -1, <<0, 1>>, "troll", HealingPotion, md, <<>>)

\* the first monster is confused
InitConfused ==
  \E c \in {0, 3} :
    InitGame(30, <<1, 0>>, 10, c, <<2, 0>>, "orc", HealingPotion, "modeNormal")

\* the first monster came next to the player along a path to the player's
\* cell, of which it keeps the last cell, and was then confused: it is at the
\* end of its confusion
InitCached ==
  /\ Fighter = InitFighters
  /\ InitPaths(<<0, 1>>, 0, FarCorner, "troll", HealingPotion, "modeNormal", <<3>>, <<<<0, 0>>>>)

\* the first monster has been killed: its corpse lies next to the player or
\* two cells away
InitCorpse ==
  \E p1 \in {<<1, 0>>, <<2, 0>>},
     mi \in {<<"modeNormal", HealingPotion>>,
             <<"modeInventoryActivate", LightningScroll>>,
             <<"modeTargeting", FireballScroll>>} :
    InitGame(30, p1, 0, -1, <<0, 1>>, "troll", mi[2], mi[1])

\* the player was killed (by the orc's attack) in a turn ended from the drop
\* menu, which has left the normal mode
InitDead ==
  InitGame(0, <<1, 0>>, 10, -1, <<0, 1>>, "troll", HealingPotion, "modeNormal")

Init ==
  \/ InitCorpse \/ InitDead
  \/ InitNormal \/ InitFar \/ InitMenu \/ InitWounded \/ InitConfused \/ InitFull \/ InitEmpty
  \/ InitCached

(***************************************************************************)
(* The turn scheduler (game.EndTurn).  EndTurn recomputes the FOV, then    *)
(* ranges over Entities (a Go map: any order, each entry once), then       *)
(* updates the statuses and returns to the handler that called it.  The    *)
(* range loop is taken one monster at a time: at an entry that is no       *)
(* monster the loop does nothing but return when the player is dead.       *)
(***************************************************************************)
DiedText == <<"You died -- press q or escape to quit">>

\* a faulty EndTurn that returns at once: C36 fails with it
EndTurnSkipped(pp, who, ev) ==
  /\ trace' = <<ev>>
  /\ inputs' = inputs + 1
  /\ UNCHANGED <<pc, todo, caller, Explored, FOV>>

\* the call of EndTurn by handler who, after the player's action op: UpdateFOV
\* and the start of the range loop
EndTurn(pp, who, ev) ==
  /\ UpdateFOV(pp)
  /\ pc' = "range"
  /\ todo' = {i \in DOMAIN Entities : IsMonster(i)}
  /\ caller' = who
  /\ inputs' = inputs + 1
  /\ trace' = <<ev, Event("UpdateFOV", -1)>>

\* the end of handleAction: the PlayerDied check (md, lg: the mode and the log
\* the action left)
HandleActionEnd(md, lg) ==
  /\ mode' = IF PlayerDied THEN "modeEnd" ELSE md
  /\ Log' = IF PlayerDied THEN LogAdd(lg, DiedText) ELSE lg

\* what the caller of EndTurn does once EndTurn has returned
Return ==
  /\ pc' = "idle"
  /\ todo' = {}
  /\ caller' = "none"
  /\ CASE caller = "handleAction" -> HandleActionEnd(mode, Log) /\ UNCHANGED targ
       [] caller = "updateInventory" -> mode' = "modeNormal" /\ UNCHANGED <<Log, targ>>
       [] caller = "activateTarget" ->
            mode' = "modeNormal" /\ targ' = noTarget /\ UNCHANGED Log

\* game.AIMove, for a monster whose cached path is path
AIMove(i, path) ==
  LET rest == IF Len(path) > 0 /\ path[1] = Positions[i] THEN Tail(path) ELSE path
  IN IF Len(rest) > 0 /\ NoBlockingEntityAt(rest[1])
     THEN /\ Positions' = [Positions EXCEPT ![i] = rest[1]]
          /\ AI' = [AI EXCEPT ![i] = Tail(rest)]
     ELSE /\ AI' = [AI EXCEPT ![i] = rest]
          /\ UNCHANGED Positions

\* p.X += -1 + 2*rand.Intn(2); p.Y += -1 + 2*rand.Intn(2)
ConfusedDeltas == {<<dx, dy>> : dx \in {-1, 1}, dy \in {-1, 1}}

\* game.HandleConfusedMonster
HandleConfusedMonster(i) ==
  \E d \in ConfusedDeltas :
    LET p == Shift(Positions[i], d)
    IN IF p \notin GridRange THEN UNCHANGED <<Positions, AI, Fighter, Log>>
       ELSE IF p = PP
       THEN /\ Fighter' = BumpAttack(i, PlayerID)
            /\ Log' = LogAdd(Log, AttackText(i, PlayerID))
            /\ UNCHANGED <<Positions, AI>>
       ELSE IF Walkable(p) /\ NoBlockingEntityAt(p)
       THEN /\ Positions' = [Positions EXCEPT ![i] = p]
            /\ UNCHANGED <<AI, Fighter, Log>>
       ELSE UNCHANGED <<Positions, AI, Fighter, Log>>

\* a faulty HandleMonsterTurn that picks a new path on every turn outside the
\* FOV: C18 fails with it
WanderPathsFresh(i, p) == UNION {AstarPath(p, f, BlockedCells) : f \in FloorCells}

\* the paths a monster at p outside the FOV follows: its cached path, or a new
\* one to Map.RandomFloor() when the cached path is empty
WanderPaths(i, p) ==
  IF Len(AI[i]) < 1 THEN UNION {AstarPath(p, f, BlockedCells) : f \in FloorCells}
  ELSE {AI[i]}

\* a faulty HandleMonsterTurn without the adjacency test: C9 fails with it
AdjacentNever(p, pp) == FALSE

\* paths.DistanceManhattan(p, pp) == 1: the monster is next to the player
Adjacent(p, pp) == DistanceManhattan(p, pp) = 1

\* a faulty HandleMonsterTurn that lets a dead monster act: C34 fails with it
NoTurnForNone(i) == FALSE

\* if !g.ECS.Alive(i): HandleMonsterTurn does nothing for a dead monster
NoTurnFor(i) == ~Alive(i)

\* game.HandleMonsterTurn
HandleMonsterTurn(i) ==
  LET p == Positions[i]
  IN IF NoTurnFor(i) THEN UNCHANGED <<Positions, AI, Fighter, Log>>
     ELSE IF Status(i, StatusConfused) THEN HandleConfusedMonster(i)
     ELSE IF Adjacent(p, PP)
     THEN /\ Fighter' = BumpAttack(i, PlayerID)
          /\ Log' = LogAdd(Log, AttackText(i, PlayerID))
          /\ UNCHANGED <<Positions, AI>>
     ELSE IF ~InFOV(p)
     THEN /\ \E path \in WanderPaths(i, p) : AIMove(i, path)
          /\ UNCHANGED <<Fighter, Log>>
     ELSE /\ \E path \in AstarPath(p, PP, BlockedCells) : AIMove(i, path)
          /\ UNCHANGED <<Fighter, Log>>

\* a faulty loop that comes back to the entries it has visited: C2 fails with
\* it
VisitedAgain(td, i) == td

\* the monsters left to visit once the loop has visited i: a range loop
\* visits an entry once
Visited(td, i) == td \ {i}

\* EndTurn's loop reaches a monster
RangeMonster(i) ==
  /\ pc = "range" /\ i \in todo /\ ~PlayerDied /\ IsMonster(i)
  /\ UNCHANGED <<NextID, Style, files, save, Grid>>
  /\ HandleMonsterTurn(i)
  /\ todo' = Visited(todo, i)
  /\ trace' = Append(trace, Event("Monster", i))
  /\ UNCHANGED <<Entities, Name, Inventory, Statuses, Explored, FOV, mode, targ, pc,
                 caller, inputs>>

\* EndTurn's loop finds the player dead at the start of an iteration and
\* returns: at the next monster, or at an entry that is no monster
RangeDied ==
  /\ pc = "range" /\ PlayerDied
  /\ UNCHANGED <<NextID, Style, files, save, Grid>>
  /\ Return
  /\ trace' = Append(trace, Event("PlayerDied", -1))
  /\ UNCHANGED <<Entities, Positions, Fighter, AI, Name, Inventory, Statuses, Explored,
                 FOV, inputs>>

\* EndTurn's loop is over: the statuses are updated and EndTurn returns.  With
\* the player dead this takes the last entry visited to be the monster whose
\* turn killed the player.
RangeEnd ==
  /\ pc = "range" /\ todo = {}
  /\ UNCHANGED <<NextID, Style, files, save, Grid>>
  /\ PlayerDied => trace[Len(trace)].op = "Monster"
  /\ Statuses' = StatusesNextTurn(Statuses)
  /\ Return
  /\ trace' = Append(trace, Event("StatusesNextTurn", -1))
  /\ UNCHANGED <<Entities, Positions, Fighter, AI, Name, Inventory, Explored, FOV, inputs>>

(***************************************************************************)
(* Input messages (model.Update) in the normal mode: handleAction.         *)
(***************************************************************************)
\* a faulty Update that handles the messages of the end mode as those of the
\* other modes: C37 fails with it
IdleOrEnd(md) == pc = "idle" /\ mode \in {md, "modeEnd"} /\ inputs < MaxInputs

\* Update waits for a message in mode md (switch m.mode)
Idle(md) == pc = "idle" /\ mode = md /\ inputs < MaxInputs

\* a faulty handler that ends the turn whatever the action returned: C15
\* fails with it
NoTurnCharged(ev) == EndTurn(PP, "handleAction", ev)

\* a message that calls no EndTurn leaves the scheduler where it is
NoTurn(ev) == /\ trace' = <<ev>>
              /\ inputs' = inputs + 1
              /\ UNCHANGED <<pc, todo, caller, Explored, FOV>>

\* ActionBump with direction d: game.Bump(PP + d), then the PlayerDied check
KeyBump(d) ==
  /\ Idle("modeNormal")
  /\ UNCHANGED <<NextID, Style, files, save, Grid>>
  /\ LET to == Shift(PP, d)
     IN IF ~Walkable(to)
        THEN /\ HandleActionEnd(mode, Log)
             /\ NoTurn(Event("Bump", -1))
             /\ UNCHANGED <<Positions, Fighter>>
        ELSE \E i \in MonsterAt(to) :
               IF Alive(i)
               THEN /\ Fighter' = BumpAttack(PlayerID, i)
                    /\ Log' = LogAdd(Log, AttackText(PlayerID, i))
                    /\ EndTurn(PP, "handleAction", Event("BumpAttack", i))
                    /\ UNCHANGED <<Positions, mode>>
               ELSE /\ Positions' = [Positions EXCEPT ![PlayerID] = to]
                    /\ EndTurn(to, "handleAction", Event("MovePlayer", -1))
                    /\ UNCHANGED <<Fighter, Log, mode>>
  /\ UNCHANGED <<Entities, AI, Name, Inventory, Statuses, targ>>

\* ActionWait: EndTurn
KeyWait ==
  /\ Idle("modeNormal")
  /\ UNCHANGED <<NextID, Style, files, save, Grid>>
  /\ EndTurn(PP, "handleAction", Event("Wait", -1))
  /\ UNCHANGED <<Entities, Positions, Fighter, AI, Name, Inventory, Statuses, Log, mode, targ>>

\* the consumables lying on the player's cell
ItemsHere == {i \in DOMAIN Positions : Positions[i] = PP /\ IsConsumable(i)}

\* ActionPickup: game.PickupItem (the range loop over Positions stops at the
\* first consumable it meets on the player's cell)
KeyPickup ==
  /\ Idle("modeNormal")
  /\ UNCHANGED <<NextID, Style, files, save, Grid>>
  /\ IF ItemsHere = {}
     THEN /\ HandleActionEnd(mode, Log)
          /\ NoTurn(Event("Pickup", -1))
          /\ UNCHANGED <<Positions, Inventory>>
     ELSE \E i \in ItemsHere :
            IF InventoryFull(PlayerID)
            THEN /\ HandleActionEnd(mode, LogAdd(Log, <<"Could not pickup", "Inventory is full.">>))
                 /\ NoTurn(Event("Pickup", -1))
                 /\ UNCHANGED <<Positions, Inventory>>
            ELSE /\ Inventory' = PickedInventory(i)
                 /\ Positions' = PickedPositions(i)
                 /\ Log' = LogAdd(Log, <<"You pickup", Name[i]>>)
                 /\ EndTurn(PP, "handleAction", Event("Pickup", i))
                 /\ UNCHANGED mode
  /\ UNCHANGED <<Entities, Fighter, AI, Name, Statuses, targ>>

\* ActionInventory and ActionDrop: the inventory menu opens in mode md
KeyOpenInventory(md) ==
  /\ Idle("modeNormal")
  /\ UNCHANGED <<NextID, Style, files, save, Grid>>
  /\ HandleActionEnd(md, Log)
  /\ NoTurn(Event("OpenInventory", -1))
  /\ UNCHANGED <<Entities, Positions, Fighter, AI, Name, Inventory, Statuses, targ>>

\* a key bound to no action, or a mouse message: NoAction
KeyOther ==
  /\ Idle("modeNormal")
  /\ UNCHANGED <<NextID, Style, files, save, Grid>>
  /\ HandleActionEnd(mode, Log)
  /\ NoTurn(Event("NoAction", -1))
  /\ UNCHANGED <<Entities, Positions, Fighter, AI, Name, Inventory, Statuses, targ>>

(***************************************************************************)
(* Input messages in the inventory modes (model.updateInventory) and in    *)
(* the targeting mode (model.updateTargeting, model.activateTarget).       *)
(***************************************************************************)
InventoryModes == {"modeInventoryActivate", "modeInventoryDrop"}

\* the slots the menu can invoke: one per entry (slot 0 of an empty menu is
\* the empty slot the code checks for)
MenuSlots == 0 .. (IF Len(Inventory[PlayerID]) = 0 THEN 0 ELSE Len(Inventory[PlayerID]) - 1)

\* ui.MenuQuit
MenuQuit ==
  /\ pc = "idle" /\ mode \in InventoryModes /\ inputs < MaxInputs
  /\ UNCHANGED <<NextID, Style, files, save, Grid>>
  /\ mode' = "modeNormal"
  /\ NoTurn(Event("MenuQuit", -1))
  /\ UNCHANGED <<Entities, Positions, Fighter, AI, Name, Inventory, Statuses, Log, targ>>

\* ui.MenuInvoke of slot n in the drop menu: game.InventoryRemove
MenuDrop(n) ==
  /\ Idle("modeInventoryDrop")
  /\ UNCHANGED <<NextID, Style, files, save, Grid>>
  /\ LET items == Inventory[PlayerID]
     IN IF Len(items) <= n
        THEN /\ Log' = LogAdd(Log, <<"Empty slot.">>)
             /\ mode' = "modeNormal"
             /\ NoTurn(Event("Drop", -1))
             /\ UNCHANGED <<Positions, Inventory>>
        ELSE /\ Inventory' = DroppedInventory(n)
             /\ Positions' = DroppedPositions(n)
             /\ EndTurn(PP, "updateInventory", Event("Drop", items[n + 1]))
             /\ UNCHANGED <<Log, mode>>
  /\ UNCHANGED <<Entities, Fighter, AI, Name, Statuses, targ>>

\* ui.MenuInvoke of slot n in the use menu: targeting, or game.InventoryActivate
MenuActivate(n) ==
  /\ Idle("modeInventoryActivate")
  /\ UNCHANGED <<NextID, Style, files, save, Grid>>
  /\ IF TargetingRadius(n) >= 0
     THEN /\ targ' = [item |-> n, radius |-> TargetingRadius(n)]
          /\ mode' = "modeTargeting"
          /\ NoTurn(Event("Targeting", -1))
          /\ UNCHANGED <<Fighter, Statuses, Inventory, Log>>
     ELSE \E r \in InventoryActivateWithTarget(PlayerID, n, nil) :
            /\ Fighter' = r.out.F
            /\ Statuses' = r.out.S
            /\ Inventory' = [Inventory EXCEPT ![PlayerID] = r.items]
            /\ UNCHANGED targ
            /\ IF r.out.err # ""
               THEN /\ Log' = LogAdd(r.out.L, <<r.out.err>>)
                    /\ mode' = "modeNormal"
                    /\ NoTurn(Event("Activate", -1))
               ELSE /\ Log' = r.out.L
                    /\ EndTurn(PP, "updateInventory", Event("Activate", n))
                    /\ UNCHANGED mode
  /\ UNCHANGED <<Entities, Positions, AI, Name>>

\* the modes whose messages go to model.updateTargeting
TargetingModes == {"modeTargeting", "modeExamination"}

\* ActionExamine: the examination mode opens (targ.item and targ.radius are
\* left as they are: zero, since every exit of the targeting resets targ)
KeyExamine ==
  /\ Idle("modeNormal")
  /\ UNCHANGED <<NextID, Style, files, save, Grid>>
  /\ HandleActionEnd("modeExamination", Log)
  /\ NoTurn(Event("Examine", -1))
  /\ UNCHANGED <<Entities, Positions, Fighter, AI, Name, Inventory, Statuses, targ>>

\* a cursor key or a mouse move in updateTargeting, Enter in the examination
\* mode, or a message it ignores: at most targ.pos changes
TargetMove ==
  /\ pc = "idle" /\ mode \in TargetingModes /\ inputs < MaxInputs
  /\ UNCHANGED <<NextID, Style, files, save, Grid>>
  /\ NoTurn(Event("TargetMove", -1))
  /\ UNCHANGED <<Entities, Positions, Fighter, AI, Name, Inventory, Statuses, Log, mode, targ>>

\* model.activateTarget(p): Enter in the targeting mode, or a mouse click
\* (MouseMain) in the targeting or the examination mode
TargetActivate(p) ==
  /\ pc = "idle" /\ mode \in TargetingModes /\ inputs < MaxInputs
  /\ UNCHANGED <<NextID, Style, files, save, Grid>>
  /\ \E r \in InventoryActivateWithTarget(PlayerID, targ.item, p) :
       /\ Fighter' = r.out.F
       /\ Statuses' = r.out.S
       /\ Inventory' = [Inventory EXCEPT ![PlayerID] = r.items]
       /\ IF r.out.err # ""
          THEN /\ Log' = LogAdd(r.out.L, <<r.out.err>>)
               /\ mode' = "modeNormal"
               /\ targ' = noTarget
               /\ NoTurn(Event("Activate", -1))
          ELSE /\ Log' = r.out.L
               /\ EndTurn(PP, "activateTarget", Event("Activate", targ.item))
               /\ UNCHANGED <<mode, targ>>
  /\ UNCHANGED <<Entities, Positions, AI, Name>>

\* Escape or "q" in updateTargeting
TargetEscape ==
  /\ pc = "idle" /\ mode \in TargetingModes /\ inputs < MaxInputs
  /\ UNCHANGED <<NextID, Style, files, save, Grid>>
  /\ targ' = noTarget
  /\ mode' = "modeNormal"
  /\ NoTurn(Event("TargetEscape", -1))
  /\ UNCHANGED <<Entities, Positions, Fighter, AI, Name, Inventory, Statuses, Log>>

\* any message in the end mode: nothing changes ("q" and escape end the
\* application)
EndKey ==
  /\ pc = "idle" /\ mode = "modeEnd"
  /\ UNCHANGED <<NextID, Style, files, save, Grid>>
  /\ UNCHANGED vars

Next ==
  \/ \E d \in CardinalDeltas : KeyBump(d)
  \/ KeyWait
  \/ KeyPickup
  \/ \E md \in InventoryModes : KeyOpenInventory(md)
  \/ KeyOther
  \/ KeyExamine
  \/ TargetMove
  \/ MenuQuit
  \/ \E n \in MenuSlots : MenuDrop(n)
  \/ \E n \in MenuSlots : MenuActivate(n)
  \/ \E p \in GridRange : TargetActivate(p)
  \/ TargetEscape
  \/ EndKey
  \/ \E i \in todo : RangeMonster(i)
  \/ RangeDied
  \/ RangeEnd

Spec == Init /\ [][Next]_vars

(***************************************************************************)
(* Properties of the game.                                                 *)
(***************************************************************************)
Monsters == {i \in DOMAIN Entities : IsMonster(i)}

\* the blocking entities: the player and the living monsters
Blocking(i) == i = PlayerID \/ (IsMonster(i) /\ Alive(i))

\* the loop of EndTurn has called HandleMonsterTurn(i) in the current pass
Acted(i) == \E k \in DOMAIN trace : trace[k] = Event("Monster", i)

\* this step is the call HandleMonsterTurn(i) by the loop of EndTurn
MonsterTurn(i) == trace' = Append(trace, Event("Monster", i))

\* C1: in every reachable state, the states between two monster turns of
\* EndTurn included, no cell holds more than one blocking entity (the player
\* or a living monster).
C1_OneBlockingEntityPerCell ==
  \A i, j \in DOMAIN Positions :
    (Blocking(i) /\ Blocking(j) /\ Positions[i] = Positions[j]) => i = j

\* inside EndTurn, a living monster has walked up to the player and another
\* monster has yet to take its turn
C1_Witness ==
  /\ pc = "range" /\ todo # {}
  /\ \E i \in Monsters : /\ Acted(i) /\ Alive(i) /\ AI[i] # <<>>
                         /\ DistanceManhattan(Positions[i], PP) = 1

\* C2: in one pass of EndTurn no monster takes two turns, a pass that runs to
\* its end has given every monster one turn, a monster takes its turn only
\* while the player is alive, and the turn of a dead monster changes nothing.
C2_State ==
  /\ \A a, b \in DOMAIN trace :
       (trace[a].op = "Monster" /\ trace[a] = trace[b]) => a = b
  /\ (trace # <<>> /\ trace[Len(trace)].op = "StatusesNextTurn")
       => \A i \in Monsters : Acted(i)
  /\ pc = "range" => \A i \in Monsters : Acted(i) <=> i \notin todo

C2_Step ==
  \A i \in Monsters :
    MonsterTurn(i) =>
      /\ ~PlayerDied
      /\ ~Acted(i)
      /\ ~Alive(i) => UNCHANGED <<Positions, Fighter, AI, Statuses, Inventory, Log>>

C2_OneTurnPerMonster == [](C2_State) /\ [][C2_Step]_vars

\* the player has been killed by the first monster of the pass and EndTurn has
\* returned before the turn of the other monster, which is alive
C2_Witness ==
  /\ pc = "idle" /\ PlayerDied
  /\ trace # <<>> /\ trace[Len(trace)].op = "PlayerDied"
  /\ \E i, j \in Monsters : Acted(i) /\ ~Acted(j) /\ Alive(j)

\* C3 (the claim as stated): once the player has died and the turn of the
\* death is over, no later input message changes a position, a fighter, a
\* status, an inventory or the explored cells.
C3_NothingAfterDeath ==
  [][(pc = "idle" /\ PlayerDied)
       => UNCHANGED <<Positions, Fighter, Statuses, Inventory, Explored>>]_vars

\* the order of a turn, as the events of the current input
TurnTaken == Len(trace) >= 2 /\ trace[2].op = "UpdateFOV"

StatusPasses == Cardinality({k \in DOMAIN trace : trace[k].op = "StatusesNextTurn"})

TurnOrder ==
  /\ \A k \in DOMAIN trace :
       /\ trace[k].op = "UpdateFOV" => k = 2
       /\ trace[k].op = "Monster" => (k > 2 /\ TurnTaken)
       /\ trace[k].op = "StatusesNextTurn" =>
            (k = Len(trace) /\ TurnTaken /\ \A i \in Monsters : Acted(i))
       /\ trace[k].op = "PlayerDied" => (k = Len(trace) /\ TurnTaken)
  /\ pc = "range" => TurnTaken
  /\ (pc = "idle" /\ TurnTaken) => trace[Len(trace)].op \in {"StatusesNextTurn", "PlayerDied"}

\* C4 (the claim as stated): a turn that has been consumed has decremented
\* the statuses exactly once, after the turns of all the monsters.
C4_StatusesOncePerTurn ==
  (pc = "idle" /\ TurnTaken) =>
    (StatusPasses = 1 /\ trace[Len(trace)].op = "StatusesNextTurn"
       /\ \A i \in Monsters : Acted(i))

\* C4 (amended): in a consumed turn the player's action comes first, then the
\* FOV and the explored cells are recomputed from the player's position after
\* the action, then the monsters take their turns under that FOV, and the
\* statuses are decremented at most once, after the turns of all the monsters;
\* exactly once when the player is alive at the end of the turn.  Inside
\* EndTurn the statuses change at no other step.
C4_State ==
  /\ TurnOrder
  /\ StatusPasses <= 1
  /\ (pc = "idle" /\ TurnTaken /\ ~PlayerDied) => StatusPasses = 1

C4_Step ==
  /\ pc = "range" =>
       \/ Statuses' = Statuses /\ trace'[Len(trace')].op # "StatusesNextTurn"
       \/ /\ trace' = Append(trace, Event("StatusesNextTurn", -1))
          /\ Statuses' = [i \in DOMAIN Statuses |->
                            [st \in {s \in DOMAIN Statuses[i] : Statuses[i][s] > 0}
                               |-> Statuses[i][st] - 1]]
  /\ (pc = "idle" /\ pc' = "range") =>
       /\ FOV' = SSCVisionMap(PP')
       /\ Explored' = Explored \cup {p \in FOV' : DistanceManhattan(p, PP') <= maxLOS}
  /\ pc = "range" => (FOV' = FOV /\ PP' = PP /\ Explored' = Explored)

C4_TurnOrder == [](C4_State) /\ [][C4_Step]_vars

\* the player has stepped to a cell from which the field of view differs, a
\* monster has taken its turn and the statuses have been decremented
C4_Witness ==
  /\ pc = "idle" /\ TurnTaken /\ trace[1].op = "MovePlayer"
  /\ trace[Len(trace)].op = "StatusesNextTurn"
  /\ FOV # SSCVisionMap(<<0, 0>>)
  /\ \E i \in DOMAIN Statuses : Statuses[i] # <<>>

\* C5 (the claim as stated): every fighter has 0 <= HP <= MaxHP.
C5_HPWithinBounds ==
  \A i \in DOMAIN Fighter : 0 <= Fighter[i].HP /\ Fighter[i].HP <= Fighter[i].MaxHP

\* C5 (amended): every fighter has HP <= MaxHP, and a living fighter has
\* 0 < HP <= MaxHP; damage can take the HP of a fighter below 0.
C5_HPAtMostMax ==
  \A i \in DOMAIN Fighter :
    /\ Fighter[i].HP <= Fighter[i].MaxHP
    /\ Alive(i) => Fighter[i].HP > 0

\* a potion has healed the player by less than its amount, up to MaxHP
C5_Witness ==
  /\ Fighter[PlayerID].HP = Fighter[PlayerID].MaxHP
  /\ \E k \in DOMAIN Log :
       Log[k].Text[1] = "You regained HP" /\ Log[k].Text[2] < HealingPotion.Amount

\* C6: in the state that follows a step taking the HP of a living monster to
\* 0 or less, the monster is dead and not alive, MonsterAt of its cell does
\* not return it, its cell is not blocked, and it still is in Entities,
\* Fighter and Positions, at the position it had.
C6_Step ==
  \A i \in Monsters :
    (Alive(i) /\ Fighter'[i].HP <= 0) =>
      /\ Dead(i)' /\ ~Alive(i)'
      /\ i \notin MonsterAt(Positions[i])'
      /\ NoBlockingEntityAt(Positions[i])'
      /\ i \in DOMAIN Entities' /\ i \in DOMAIN Fighter' /\ i \in DOMAIN Positions'
      /\ Positions'[i] = Positions[i]

C6_DeadMonsterStays == [][C6_Step]_vars

\* a monster has been killed
C6_Witness ==
  \E i \in Monsters : Dead(i) /\ i \in DOMAIN Positions /\ Log # <<>>

(***************************************************************************)
(* The status table on its own: PutStatus and StatusesNextTurn applied in  *)
(* any order to two entities, with the calls made recorded in trace.       *)
(***************************************************************************)
MaxDuration == 2
MaxSteps == 5

StatusEntities == {1, 2}

PutEvent(i, n) == [op |-> "PutStatus", id |-> i, n |-> n]

PassEvent == [op |-> "StatusesNextTurn", id |-> -1, n |-> 0]

InitStatus == InitGame(30, <<1, 0>>, 10, -1, <<0, 1>>, "troll", HealingPotion, "modeNormal")

StatusPut(i, n) ==
  /\ Len(trace) < MaxSteps
  /\ UNCHANGED <<NextID, Style, files, save, Grid>>
  /\ Statuses' = PutStatus(Statuses, i, StatusConfused, n)
  /\ trace' = Append(trace, PutEvent(i, n))
  /\ UNCHANGED <<Entities, Positions, Fighter, AI, Name, Inventory, Explored, FOV, Log,
                 mode, targ, pc, todo, caller, inputs>>

StatusPass ==
  /\ Len(trace) < MaxSteps
  /\ UNCHANGED <<NextID, Style, files, save, Grid>>
  /\ Statuses' = StatusesNextTurn(Statuses)
  /\ trace' = Append(trace, PassEvent)
  /\ UNCHANGED <<Entities, Positions, Fighter, AI, Name, Inventory, Explored, FOV, Log,
                 mode, targ, pc, todo, caller, inputs>>

NextStatus ==
  \/ \E i \in StatusEntities, n \in 0..MaxDuration : StatusPut(i, n)
  \/ StatusPass

SpecStatus == InitStatus /\ [][NextStatus]_vars

\* the calls of PutStatus on i, the last of them, and the decrement passes
\* made since
Puts(i) == {k \in DOMAIN trace : trace[k].op = "PutStatus" /\ trace[k].id = i}

LastPut(i) == CHOOSE k \in Puts(i) : \A l \in Puts(i) : l <= k

PassesSince(k) == Cardinality({l \in DOMAIN trace : l > k /\ trace[l] = PassEvent})

\* C7: m calls of StatusesNextTurn after a status was last put on an entity
\* with duration n >= 0, the status is present with counter n - m when
\* m <= n, and absent when m >= n + 1: call n + 1 deletes it.
C7_StatusLifetime ==
  \A i \in StatusEntities :
    IF Puts(i) = {} THEN ~Status(i, StatusConfused)
    ELSE LET n == trace[LastPut(i)].n
             m == PassesSince(LastPut(i))
         IN /\ m <= n => (Status(i, StatusConfused) /\ Statuses[i][StatusConfused] = n - m)
            /\ m > n => ~Status(i, StatusConfused)

\* a status put with duration 1 or more has been deleted by call n + 1
C7_Witness ==
  \E i \in StatusEntities :
    /\ Puts(i) # {}
    /\ trace[LastPut(i)].n >= 1
    /\ PassesSince(LastPut(i)) = trace[LastPut(i)].n + 1
    /\ ~Status(i, StatusConfused)

\* C8 (the claim as stated): the turn of a living confused monster leaves it
\* where it is or one cardinal step away, and it attacks the player only from
\* a cardinal neighbour of the player's cell.
C8_CardinalStep ==
  [][\A i \in Monsters :
       (MonsterTurn(i) /\ Alive(i) /\ Status(i, StatusConfused)) =>
         /\ Positions'[i] = Positions[i]
              \/ DistanceManhattan(Positions'[i], Positions[i]) = 1
         /\ Fighter' # Fighter => DistanceManhattan(Positions[i], PP) = 1]_vars

\* C9: the turn of a living monster that is not confused and stands at
\* Manhattan distance 1 of the player is an attack on the player: the player
\* loses Power - Defense HP when that is positive, one message is logged, and
\* no position and no cached path changes.
C9_Step ==
  \A i \in Monsters :
    (MonsterTurn(i) /\ Alive(i) /\ ~Status(i, StatusConfused)
       /\ DistanceManhattan(Positions[i], PP) = 1) =>
      /\ Positions' = Positions
      /\ AI' = AI
      /\ LET dmg == Fighter[i].Power - Fighter[PlayerID].Defense
         IN Fighter'[PlayerID].HP = Fighter[PlayerID].HP - (IF dmg > 0 THEN dmg ELSE 0)
      /\ LogCount(Log') = LogCount(Log) + 1
      /\ Log'[Len(Log')].Text[2] = Name[i] /\ Log'[Len(Log')].Text[3] = Name[PlayerID]

C9_AdjacentMonsterAttacks == [][C9_Step]_vars

\* a monster next to the player has just attacked and stands where it stood
C9_Witness ==
  /\ pc = "range" /\ trace[Len(trace)].op = "Monster"
  /\ LET i == trace[Len(trace)].id
     IN /\ Alive(i) /\ ~Status(i, StatusConfused)
        /\ DistanceManhattan(Positions[i], PP) = 1
        /\ AI[i] = <<>>
        /\ Log # <<>> /\ Log[Len(Log)].Text[1] = "attacks for damage"
        /\ Log[Len(Log)].Text[2] = Name[i]

(***************************************************************************)
(* BumpAttack on its own: fighters whose Power and Defense are drawn from  *)
(* small sets attack each other.                                           *)
(***************************************************************************)
MaxStat == 2
MaxAttacks == 2

AttackEvent(i, j) == [op |-> "BumpAttack", id |-> j, by |-> i]

InitCombat ==
  \E pw0, df0, pw1, df1 \in 0..MaxStat :
    /\ Fighter = (0 :> [HP |-> 1, MaxHP |-> 30, Power |-> pw0, Defense |-> df0]
                  @@ 1 :> [HP |-> 1, MaxHP |-> 10, Power |-> pw1, Defense |-> df1]
                  @@ 2 :> TrollFighter)
    /\ InitOther(<<1, 0>>, -1, <<0, 1>>, "troll", HealingPotion, "modeNormal")

Attack(i, j) ==
  /\ Len(trace) < MaxAttacks
  /\ UNCHANGED <<NextID, Style, files, save, Grid>>
  /\ Fighter' = BumpAttack(i, j)
  /\ Log' = LogAdd(Log, AttackText(i, j))
  /\ trace' = Append(trace, AttackEvent(i, j))
  /\ UNCHANGED <<Entities, Positions, AI, Name, Inventory, Statuses, Explored, FOV,
                 mode, targ, pc, todo, caller, inputs>>

NextCombat == \E i, j \in DOMAIN Fighter : i # j /\ Attack(i, j)

SpecCombat == InitCombat /\ [][NextCombat]_vars

\* C10: BumpAttack(i, j) takes Power(i) - Defense(j) from the HP of j when
\* that is positive (the HP can become negative) and leaves the HP of j as it
\* is otherwise; it changes nothing else of any fighter and no position, and
\* it logs one message.
C10_Step ==
  \A i, j \in DOMAIN Fighter :
    trace' = Append(trace, AttackEvent(i, j)) =>
      LET dmg == Fighter[i].Power - Fighter[j].Defense
      IN /\ dmg > 0 => Fighter'[j].HP = Fighter[j].HP - dmg
         /\ dmg <= 0 => Fighter'[j].HP = Fighter[j].HP
         /\ Fighter'[j] = [Fighter[j] EXCEPT !.HP = Fighter'[j].HP]
         /\ \A k \in DOMAIN Fighter \ {j} : Fighter'[k] = Fighter[k]
         /\ DOMAIN Fighter' = DOMAIN Fighter
         /\ Positions' = Positions
         /\ LogCount(Log') = LogCount(Log) + 1

C10_BumpAttack == [][C10_Step]_vars

\* one attack has done no damage and one has taken a fighter below 0
C10_Witness ==
  /\ \E k \in DOMAIN Log : Log[k].Text[1] = "attacks but does no damage"
  /\ \E j \in DOMAIN Fighter : Fighter[j].HP < 0

(***************************************************************************)
(* The consumables on their own: one activation, by Consumable.Activate    *)
(* or through the inventory (game.InventoryActivateWithTarget), in a game  *)
(* whose item parameters, HP and monster positions are drawn from small    *)
(* sets.  The player carries one item of each kind.                        *)
(***************************************************************************)
MaxParam == 2

\* a consumable lying on the floor: an entity without fighter component
FloorItem == 7

ItemActors == {PlayerID, 1, FloorItem}

Targets == GridRange \cup {nil}

ActivateEvent(e, actor, target, err) ==
  [op |-> "Activate", e |-> e, actor |-> actor, target |-> target, err |-> err]

InventoryEvent(n, target, err) ==
  [op |-> "InventoryActivate", n |-> n, target |-> target, err |-> err]

InitItems ==
  \E php \in {1, 29, 30}, hp1 \in {10, 0}, p1 \in {<<1, 0>>, <<2, 0>>},
     p2 \in {<<0, 1>>, FarCorner}, a \in 1..MaxParam, r \in 0..MaxParam :
    /\ Entities = (0 :> [kind |-> "Player"] @@ 1 :> [kind |-> "Monster"]
                   @@ 2 :> [kind |-> "Monster"]
                   @@ 3 :> [HealingPotion EXCEPT !.Amount = a]
                   @@ 4 :> [LightningScroll EXCEPT !.Range = r]
                   @@ 5 :> ConfusionScroll
                   @@ 6 :> [FireballScroll EXCEPT !.Radius = r]
                   @@ 7 :> HealingPotion)
    /\ Positions = (0 :> <<0, 0>> @@ 1 :> p1 @@ 2 :> p2 @@ 7 :> <<0, 0>>)
    /\ Fighter = (0 :> [PlayerFighter EXCEPT !.HP = php]
                  @@ 1 :> [OrcFighter EXCEPT !.HP = hp1]
                  @@ 2 :> TrollFighter)
    /\ AI = (1 :> <<>> @@ 2 :> <<>>)
    /\ Name = (0 :> "player" @@ 1 :> "orc" @@ 2 :> "troll" @@ 3 :> "health potion"
               @@ 4 :> "lightning scroll" @@ 5 :> "confusion scroll"
               @@ 6 :> "fireball scroll" @@ 7 :> "health potion")
    /\ Inventory = (0 :> <<3, 4, 5, 6>>)
    /\ Statuses = (2 :> (StatusConfused :> 3))
    /\ Explored = SeenFrom(<<0, 0>>)
    /\ FOV = SSCVisionMap(<<0, 0>>)
    /\ Log = <<>>
    /\ mode = "modeNormal"
    /\ targ = noTarget
    /\ pc = "idle"
    /\ todo = {}
    /\ caller = "none"
    /\ inputs = 0
    /\ trace = <<>>
    /\ Grid = Terrain
    /\ files = NoFiles
    /\ save = NoSave
    /\ NextID = MaxOf(DOMAIN Entities) + 1
    /\ Style = [i \in DOMAIN Name |-> NameStyle(Name[i])]

\* e.Activate(g, itemAction{Actor: actor, Target: target})
UseItem(e, actor, target) ==
  /\ trace = <<>>
  /\ UNCHANGED <<NextID, Style, files, save, Grid>>
  /\ \E o \in Activate(e, actor, target) :
       /\ Fighter' = o.F
       /\ Statuses' = o.S
       /\ Log' = o.L
       /\ trace' = <<ActivateEvent(e, actor, target, o.err)>>
  /\ UNCHANGED <<Entities, Positions, AI, Name, Inventory, Explored, FOV, mode, targ,
                 pc, todo, caller, inputs>>

\* g.InventoryActivateWithTarget(PlayerID, n, target)
InvUse(n, target) ==
  /\ trace = <<>>
  /\ UNCHANGED <<NextID, Style, files, save, Grid>>
  /\ \E r \in InventoryActivateWithTarget(PlayerID, n, target) :
       /\ Fighter' = r.out.F
       /\ Statuses' = r.out.S
       /\ Log' = r.out.L
       /\ Inventory' = [Inventory EXCEPT ![PlayerID] = r.items]
       /\ trace' = <<InventoryEvent(n, target, r.out.err)>>
  /\ UNCHANGED <<Entities, Positions, AI, Name, Explored, FOV, mode, targ,
                 pc, todo, caller, inputs>>

NextItems ==
  \/ \E i \in 3..6, actor \in ItemActors, target \in Targets :
       UseItem(Entities[i], actor, target)
  \/ \E n \in 0..Len(Inventory[PlayerID]), target \in Targets : InvUse(n, target)

SpecItems == InitItems /\ [][NextItems]_vars

\* this step is the activation of an item of kind k
Activation(k) ==
  /\ trace = <<>> /\ trace' # <<>>
  /\ trace'[1].op = "Activate" /\ trace'[1].e.kind = k

\* this step is the activation of inventory slot n, which holds an item of kind k
SlotActivation(n, k) ==
  /\ trace = <<>> /\ trace' # <<>>
  /\ trace'[1].op = "InventoryActivate" /\ trace'[1].n = n
  /\ n < Len(Inventory[PlayerID]) /\ Entities[Inventory[PlayerID][n + 1]].kind = k

\* every fighter but those of T is left as it is
OtherFightersUnchanged(T) ==
  /\ DOMAIN Fighter' = DOMAIN Fighter
  /\ \A j \in DOMAIN Fighter \ T : Fighter'[j] = Fighter[j]
  /\ \A j \in T \cap DOMAIN Fighter : Fighter'[j] = [Fighter[j] EXCEPT !.HP = Fighter'[j].HP]

\* C11: a healing potion of amount A > 0 used by an actor with 0 < h <= M sets
\* the HP to min(h + A, M) and, for the player, reports min(A, M - h); with
\* h = M it fails with the 'already full' error and changes nothing, the
\* inventory included; an actor without fighter gets the 'cannot use' error.
C11_Step ==
  /\ Activation("HealingPotion") =>
       LET ev == trace'[1]
           a == ev.actor
       IN /\ a \notin DOMAIN Fighter =>
               /\ ev.err = "cannot use healing potions."
               /\ UNCHANGED <<Fighter, Statuses, Log, Inventory, Positions>>
          /\ (a \in DOMAIN Fighter /\ Fighter[a].HP = Fighter[a].MaxHP) =>
               /\ ev.err = "Your health is already full."
               /\ UNCHANGED <<Fighter, Statuses, Log, Inventory, Positions>>
          /\ (a \in DOMAIN Fighter /\ 0 < Fighter[a].HP /\ Fighter[a].HP < Fighter[a].MaxHP) =>
               /\ ev.err = ""
               /\ Fighter'[a].HP = Min2(Fighter[a].HP + ev.e.Amount, Fighter[a].MaxHP)
               /\ OtherFightersUnchanged({a})
               /\ a = PlayerID =>
                    Log' = Append(Log, [Text |-> <<"You regained HP",
                                                   Min2(ev.e.Amount,
                                                        Fighter[a].MaxHP - Fighter[a].HP)>>,
                                        Dups |-> 0])
               /\ UNCHANGED <<Statuses, Positions>>
  /\ \A n \in 0..(maxSize - 1) :
       (SlotActivation(n, "HealingPotion")
          /\ Fighter[PlayerID].HP = Fighter[PlayerID].MaxHP) =>
         /\ trace'[1].err = "Your health is already full."
         /\ UNCHANGED <<Fighter, Statuses, Log, Inventory, Positions>>

C11_HealingPotion == [][C11_Step]_vars

\* the player at 29 of 30 HP has been healed by 1 with a potion of amount 2
C11_Witness ==
  /\ trace # <<>> /\ trace[1].op = "Activate" /\ trace[1].e.kind = "HealingPotion"
  /\ trace[1].e.Amount = 2 /\ trace[1].actor = PlayerID /\ trace[1].err = ""
  /\ Fighter[PlayerID].HP = Fighter[PlayerID].MaxHP
  /\ Log # <<>> /\ Log[1].Text = <<"You regained HP", 1>>

\* C12: a lightning scroll of range R and damage D takes exactly D from the
\* HP of one fighter: a living fighter other than the actor, in the player's
\* FOV, at Manhattan distance <= R of the actor, with no other such fighter
\* strictly closer; no other fighter changes.  When no fighter qualifies it
\* fails with 'No enemy within range.' and no fighter changes.
C12_Step ==
  Activation("LightningScroll") =>
    LET ev == trace'[1]
        a == ev.actor
        d(i) == DistanceManhattan(Positions[i], Positions[a])
        Q == {i \in DOMAIN Fighter : /\ i # a /\ Fighter[i].HP > 0
                                     /\ Positions[i] \in FOV
                                     /\ DistanceManhattan(PP, Positions[i]) <= maxLOS
                                     /\ d(i) <= ev.e.Range}
    IN IF Q = {} THEN ev.err = "No enemy within range." /\ Fighter' = Fighter
       ELSE /\ ev.err = ""
            /\ \E t \in Q : /\ \A j \in Q : d(t) <= d(j)
                            /\ Fighter'[t].HP = Fighter[t].HP - ev.e.Damage
                            /\ OtherFightersUnchanged({t})

C12_Lightning == [][C12_Step]_vars

\* with the orc at distance 2 and the troll at distance 1, both visible and in
\* range, the bolt has struck the troll and left the orc as it was
C12_Witness ==
  /\ trace # <<>> /\ trace[1].op = "Activate" /\ trace[1].e.kind = "LightningScroll"
  /\ trace[1].actor = PlayerID /\ trace[1].e.Range = 2 /\ trace[1].err = ""
  /\ Positions[1] = <<2, 0>> /\ Positions[2] = <<0, 1>>
  /\ Fighter[1].HP = 10 /\ Fighter[2].HP = TrollFighter.HP - LightningScroll.Damage

\* the activation of a confusion scroll at target p fails
ConfusionFails(p) ==
  \/ p = nil
  \/ p \notin FOV \/ DistanceManhattan(PP, p) > maxLOS
  \/ p = PP
  \/ ~\E i \in Monsters : Positions[i] = p /\ Fighter[i].HP > 0

\* C13: a confusion scroll fails and leaves the statuses as they are when no
\* target is given, when the target is not in the player's FOV, when it is the
\* player's cell, and when it holds no living monster; otherwise it puts
\* StatusConfused with sc.Turns turns on the living monster at the target and
\* changes the statuses of no other entity.
C13_Step ==
  Activation("ConfusionScroll") =>
    LET ev == trace'[1]
        p == ev.target
    IN IF ConfusionFails(p) THEN ev.err # "" /\ Statuses' = Statuses
       ELSE /\ ev.err = ""
            /\ \E i \in Monsters :
                 /\ Positions[i] = p /\ Fighter[i].HP > 0
                 /\ DOMAIN Statuses' = DOMAIN Statuses \cup {i}
                 /\ DOMAIN Statuses'[i] = {StatusConfused}
                 /\ Statuses'[i][StatusConfused] = ev.e.Turns
                 /\ \A j \in DOMAIN Statuses \ {i} : Statuses'[j] = Statuses[j]

C13_Confusion == [][C13_Step]_vars

\* the orc has been confused for sc.Turns turns and the troll keeps the 3
\* turns of confusion it had
C13_Witness ==
  /\ trace # <<>> /\ trace[1].op = "Activate" /\ trace[1].e.kind = "ConfusionScroll"
  /\ trace[1].err = "" /\ trace[1].target = Positions[1]
  /\ Status(1, StatusConfused) /\ Statuses[1][StatusConfused] = ConfusionScroll.Turns
  /\ Statuses[2][StatusConfused] = 3

\* C14: a fireball of damage D and radius R aimed at a point p of the player's
\* FOV takes exactly D from the HP of every living fighter, the caster
\* included, at Manhattan distance <= R of p, and changes no other fighter;
\* it fails and changes no fighter when no target is given, when p is not in
\* the FOV, and when no living fighter is within the radius.
C14_Step ==
  Activation("FireballScroll") =>
    LET ev == trace'[1]
        p == ev.target
        H == IF p = nil THEN {}
             ELSE {i \in DOMAIN Fighter : /\ Fighter[i].HP > 0
                                          /\ DistanceManhattan(Positions[i], p) <= ev.e.Radius}
    IN IF p = nil \/ p \notin FOV \/ DistanceManhattan(PP, p) > maxLOS \/ H = {}
       THEN ev.err # "" /\ Fighter' = Fighter
       ELSE /\ ev.err = ""
            /\ \A i \in H : Fighter'[i].HP = Fighter[i].HP - ev.e.Damage
            /\ OtherFightersUnchanged(H)

C14_Fireball == [][C14_Step]_vars

\* a fireball of radius 1 aimed at the caster's cell has burnt the caster and
\* the troll next to it, and left the orc at distance 2 as it was
C14_Witness ==
  /\ trace # <<>> /\ trace[1].op = "Activate" /\ trace[1].e.kind = "FireballScroll"
  /\ trace[1].err = "" /\ trace[1].target = <<0, 0>> /\ trace[1].e.Radius = 1
  /\ trace[1].actor = PlayerID
  /\ Positions[1] = <<2, 0>> /\ Fighter[1].HP = 10
  /\ Positions[2] = <<0, 1>> /\ Fighter[2].HP = TrollFighter.HP - FireballScroll.Damage
  /\ Fighter[PlayerID].HP = 30 - FireballScroll.Damage

\* the item ids held in a sequence of slots
Held(items) == {items[k] : k \in DOMAIN items}

\* C17: a successful activation of inventory slot n shortens the inventory by
\* one slot: the activated item is no longer in it, every other item is still
\* in it exactly once, and the item of the last slot is at index n; a failed
\* activation leaves the inventory as it is.
C17_Step ==
  (trace = <<>> /\ trace' # <<>> /\ trace'[1].op = "InventoryActivate") =>
    LET ev == trace'[1]
        n == ev.n
        items == Inventory[PlayerID]
        left == Inventory'[PlayerID]
    IN IF ev.err # "" THEN Inventory' = Inventory
       ELSE /\ n < Len(items)
            /\ Len(left) = Len(items) - 1
            /\ items[n + 1] \notin Held(left)
            /\ \A x \in Held(items) \ {items[n + 1]} :
                 Cardinality({k \in DOMAIN left : left[k] = x}) = 1
            /\ n + 1 < Len(items) => left[n + 1] = items[Len(items)]
            /\ DOMAIN Inventory' = DOMAIN Inventory

C17_ActivationRemovesSlot == [][C17_Step]_vars

\* the potion of slot 0 has been drunk and the item of the last slot has taken
\* its place
C17_Witness ==
  /\ trace # <<>> /\ trace[1].op = "InventoryActivate" /\ trace[1].n = 0
  /\ trace[1].err = ""
  /\ Inventory[PlayerID] = <<6, 4, 5>>

\* this step is a player action that failed: a bump into a cell that is not
\* walkable, a pickup, a drop or an activation that returned an error
FailedAction ==
  /\ pc = "idle"
  /\ trace' # trace
  /\ \E op \in {"Bump", "Pickup", "Drop", "Activate"} : trace'[1] = Event(op, -1)

\* C15: a failed player action is free: EndTurn is not called, so that no
\* monster acts, no status is decremented and the FOV is not recomputed, and
\* positions, fighters and inventories are unchanged; at most one message is
\* logged.
C15_Step ==
  FailedAction =>
    /\ pc' = "idle" /\ todo' = {}
    /\ UNCHANGED <<Positions, Fighter, Inventory, Statuses, AI, FOV, Explored>>
    /\ LogCount(Log') <= LogCount(Log) + 1

C15_FailedActionIsFree == [][C15_Step]_vars

\* a pickup has failed on a full inventory
C15_Witness ==
  /\ trace = <<Event("Pickup", -1)>>
  /\ Len(Inventory[PlayerID]) = maxSize
  /\ Log # <<>> /\ Log[Len(Log)].Text = <<"Could not pickup", "Inventory is full.">>
  /\ \E i \in DOMAIN Positions : IsConsumable(i) /\ Positions[i] = PP

(***************************************************************************)
(* The inventory on its own: pickups (game.PickupItem), drops              *)
(* (game.InventoryRemove) and moves of the player (ECS.MovePlayer) in any  *)
(* order, each recorded in trace with the cell and the inventory it found. *)
(***************************************************************************)
MaxMoves == 3

InventoryOp(op, i) ==
  [op |-> op, id |-> i, at |-> PP, had |-> {Inventory[PlayerID][k] : k \in DOMAIN Inventory[PlayerID]}]

InitInventory ==
  \E held \in {<<>>, <<3>>, <<3, 5>>} :
    /\ Fighter = InitFighters
    /\ InitBase(<<2, 0>>, -1, FarCorner, "troll", HealingPotion, "modeNormal", held)

InvPick(i) ==
  /\ Len(trace) < MaxMoves
  /\ UNCHANGED <<NextID, Style, files, save, Grid>>
  /\ i \in ItemsHere /\ Len(Inventory[PlayerID]) < maxSize
  /\ Inventory' = PickedInventory(i)
  /\ Positions' = PickedPositions(i)
  /\ trace' = Append(trace, InventoryOp("Pickup", i))
  /\ UNCHANGED <<Entities, Fighter, AI, Name, Statuses, Explored, FOV, Log, mode, targ,
                 pc, todo, caller, inputs>>

InvDrop(n) ==
  /\ Len(trace) < MaxMoves
  /\ UNCHANGED <<NextID, Style, files, save, Grid>>
  /\ n < Len(Inventory[PlayerID])
  /\ Inventory' = DroppedInventory(n)
  /\ Positions' = DroppedPositions(n)
  /\ trace' = Append(trace, InventoryOp("Drop", Inventory[PlayerID][n + 1]))
  /\ UNCHANGED <<Entities, Fighter, AI, Name, Statuses, Explored, FOV, Log, mode, targ,
                 pc, todo, caller, inputs>>

InvMove(d) ==
  /\ Len(trace) < MaxMoves
  /\ UNCHANGED <<NextID, Style, files, save, Grid>>
  /\ Walkable(Shift(PP, d)) /\ NoBlockingEntityAt(Shift(PP, d))
  /\ Positions' = [Positions EXCEPT ![PlayerID] = Shift(PP, d)]
  /\ trace' = Append(trace, InventoryOp("MovePlayer", PlayerID))
  /\ UNCHANGED <<Entities, Fighter, AI, Name, Inventory, Statuses, Explored, FOV, Log,
                 mode, targ, pc, todo, caller, inputs>>

NextInventory ==
  \/ \E i \in DOMAIN Entities : InvPick(i)
  \/ \E n \in 0..(maxSize - 1) : InvDrop(n)
  \/ \E d \in CardinalDeltas : InvMove(d)

SpecInventory == InitInventory /\ [][NextInventory]_vars

\* C16: when the player drops item i right after having picked it up from its
\* cell p, i is in the position table at p again, i is in no inventory, and
\* the inventory holds the set of items it held before the pickup.  The
\* pickup itself takes i out of the position table and appends it to the
\* inventory.
C16_Step ==
  \A i \in DOMAIN Entities :
    /\ trace' = Append(trace, InventoryOp("Pickup", i)) =>
         /\ i \notin DOMAIN Positions'
         /\ Inventory'[PlayerID] = Append(Inventory[PlayerID], i)
    /\ (/\ trace # <<>> /\ trace[Len(trace)].op = "Pickup" /\ trace[Len(trace)].id = i
        /\ trace' = Append(trace, InventoryOp("Drop", i))) =>
         LET pick == trace[Len(trace)]
         IN /\ i \in DOMAIN Positions' /\ Positions'[i] = pick.at
            /\ \A a \in DOMAIN Inventory' :
                 \A k \in DOMAIN Inventory'[a] : Inventory'[a][k] # i
            /\ {Inventory'[PlayerID][k] : k \in DOMAIN Inventory'[PlayerID]} = pick.had
            /\ \A j \in DOMAIN Positions \ {i} : Positions'[j] = Positions[j]

C16_PickupDropRoundTrip == [][C16_Step]_vars

\* the player, holding two items, has picked up the potion of its cell and
\* dropped it again
C16_Witness ==
  /\ Len(trace) = 2
  /\ trace[1].op = "Pickup" /\ trace[1].id = 4 /\ trace[1].had = {3, 5}
  /\ trace[2].op = "Drop" /\ trace[2].id = 4
  /\ Positions[4] = trace[1].at
  /\ Inventory[PlayerID] = <<3, 5>>

\* a sequence of cells each next to the one before
Chain(path) == \A k \in 1..(Len(path) - 1) : DistanceManhattan(path[k], path[k + 1]) = 1

\* the cell holds the player or a living monster
Occupied(c) == \E j \in DOMAIN Positions : Blocking(j) /\ Positions[j] = c

\* monster i makes the move AIMove allows on the path rest, whose head is
\* not its own cell: one step when the next cell is free, none otherwise
StepsAlong(i, rest) ==
  IF rest # <<>> /\ ~Occupied(rest[1])
  THEN Positions'[i] = rest[1] /\ AI'[i] = Tail(rest)
  ELSE Positions'[i] = Positions[i] /\ AI'[i] = rest

\* C18: in the turn of a living monster that is neither confused nor next to
\* the player: outside the player's FOV with a cached path, the monster
\* follows the cached path by at most one step, and stays where it is with
\* the path kept when the next cell holds a blocking entity; outside the FOV
\* without cached path, it takes a new path to a floor cell; inside the FOV,
\* its path is replaced by a path that leads to the player's cell.  A step on
\* a path computed in the turn leads to a cell next to the monster's; a step
\* on a cached path leads to the head of that path, wherever the monster is.
C18_Step ==
  \A i \in Monsters :
    (MonsterTurn(i) /\ Alive(i) /\ ~Status(i, StatusConfused)
       /\ DistanceManhattan(Positions[i], PP) # 1) =>
      LET p == Positions[i]
          seen == p \in FOV /\ DistanceManhattan(PP, p) <= maxLOS
          cached == IF AI[i] # <<>> /\ AI[i][1] = p THEN Tail(AI[i]) ELSE AI[i]
          ahead == <<Positions'[i]>> \o AI'[i]
      IN /\ (~seen /\ AI[i] # <<>>) => StepsAlong(i, cached)
         /\ (~seen /\ AI[i] = <<>>) =>
              /\ Chain(ahead) /\ ahead[Len(ahead)] \in FloorCells
              /\ Positions'[i] # p => ~Occupied(Positions'[i])
              /\ (Positions'[i] = p /\ AI'[i] # <<>>) => Occupied(AI'[i][1])
         /\ seen =>
              /\ Chain(ahead) /\ ahead[Len(ahead)] = PP
              /\ Positions'[i] # p => ~Occupied(Positions'[i])
              /\ Positions'[i] = p => Occupied(AI'[i][1])
         /\ (seen \/ AI[i] = <<>>) =>
              (Positions'[i] = p \/ DistanceManhattan(Positions'[i], p) = 1)
         /\ \A j \in DOMAIN Positions \ {i} : Positions'[j] = Positions[j]
         /\ \A j \in DOMAIN AI \ {i} : AI'[j] = AI[j]
         /\ Fighter' = Fighter

C18_WanderAndChase == [][C18_Step]_vars

\* in the second turn the second monster, which started out of sight at the
\* far corner, has followed a path that does not lead to the player and is
\* two steps away from the corner
C18_Witness ==
  /\ pc = "range" /\ inputs = 2 /\ Acted(2) /\ Alive(2)
  /\ Name[2] = "orc" /\ ~Status(1, StatusConfused)
  /\ DistanceManhattan(Positions[2], FarCorner) = 2
  /\ AI[2] # <<>> /\ AI[2][Len(AI[2])] # PP

\* this step is the handling of a bump: ActionBump in the normal mode
BumpStep ==
  /\ pc = "idle" /\ mode = "modeNormal" /\ trace' # trace
  /\ trace'[1].op \in {"Bump", "BumpAttack", "MovePlayer"}

\* C19: a bump attacks the living monster of the destination and leaves the
\* player where it is, or moves the player to a free floor cell next to it,
\* and ends the turn in both cases; a bump into a wall or off the grid changes
\* nothing and ends no turn.  The player never moves onto a living monster.
C19_Step ==
  BumpStep =>
    LET ev == trace'[1]
    IN /\ ev.op = "BumpAttack" =>
            /\ ev.id \in Monsters /\ Fighter[ev.id].HP > 0
            /\ DistanceManhattan(Positions[ev.id], PP) = 1
            /\ Positions' = Positions
            /\ LET dmg == Fighter[PlayerID].Power - Fighter[ev.id].Defense
               IN Fighter'[ev.id].HP = Fighter[ev.id].HP - (IF dmg > 0 THEN dmg ELSE 0)
            /\ OtherFightersUnchanged({ev.id})
            /\ pc' = "range"
       /\ ev.op = "MovePlayer" =>
            /\ DistanceManhattan(PP', PP) = 1
            /\ PP' \in FloorCells
            /\ ~\E j \in Monsters : Positions[j] = PP' /\ Fighter[j].HP > 0
            /\ \A j \in DOMAIN Positions \ {PlayerID} : Positions'[j] = Positions[j]
            /\ DOMAIN Positions' = DOMAIN Positions
            /\ Fighter' = Fighter
            /\ pc' = "range"
       /\ ev.op = "Bump" =>
            /\ \E d \in CardinalDeltas : Shift(PP, d) \notin FloorCells
            /\ UNCHANGED <<Positions, Fighter, Statuses, Inventory, AI, FOV, Explored>>
            /\ pc' = "idle"

C19_Bump == [][C19_Step]_vars

\* the player has bumped into the orc next to it: the orc is wounded, the
\* player has not moved and the monsters are taking their turns
C19_Witness ==
  /\ pc = "range" /\ trace[1] = Event("BumpAttack", 1)
  /\ PP = <<0, 0>> /\ Positions[1] = <<1, 0>>
  /\ Fighter[1].HP \in {10 - (PlayerFighter.Power - OrcFighter.Defense),
                        5 - (PlayerFighter.Power - OrcFighter.Defense)}

\* C20: the set of explored cells only grows: no step takes a cell out of it.
C20_ExploredGrows == [][Explored \subseteq Explored']_vars

\* the player has moved and a cell explored earlier is out of sight now
C20_Witness ==
  /\ inputs >= 1 /\ PP # <<0, 0>>
  /\ \E c \in Explored : c \notin FOV
  /\ \E c \in Explored : c \notin SeenFrom(<<0, 0>>)

(***************************************************************************)
(* The status table under PutStatus with several kinds of status: the type *)
(* status is an integer, StatusConfused is its first value.                *)
(***************************************************************************)
MaxStatus == 1

StatusKinds == StatusConfused..MaxStatus

\* a call PutStatus(i, st, n); had is the counter the status had, -1 for none
PutKindEvent(i, st, n) ==
  [op |-> "PutStatus", id |-> i, st |-> st, n |-> n,
   had |-> IF Status(i, st) THEN Statuses[i][st] ELSE -1]

\* the tables of remaining turns an entity may have
StatusMaps == UNION {[K -> 0..MaxDuration] : K \in SUBSET StatusKinds}

\* the entities of InitStatus with any table of statuses on the first
\* monster, and none, an empty one or a full one on the second
InitPut ==
  \E t1 \in {<<>>} \cup {<<m>> : m \in StatusMaps},
     t2 \in {<<>>, <<[s \in {} |-> 0]>>, <<[s \in StatusKinds |-> MaxDuration]>>} :
    /\ Statuses = [i \in {1 : k \in DOMAIN t1} \cup {2 : k \in DOMAIN t2} |->
                     IF i = 1 THEN t1[1] ELSE t2[1]]
    /\ Entities = (0 :> [kind |-> "Player"] @@ 1 :> [kind |-> "Monster"]
                   @@ 2 :> [kind |-> "Monster"] @@ 3 :> HealingPotion)
    /\ Positions = (0 :> <<0, 0>> @@ 1 :> <<1, 0>> @@ 2 :> <<0, 1>>)
    /\ Fighter = (0 :> PlayerFighter @@ 1 :> OrcFighter @@ 2 :> TrollFighter)
    /\ AI = (1 :> <<>> @@ 2 :> <<>>)
    /\ Name = (0 :> "player" @@ 1 :> "orc" @@ 2 :> "troll" @@ 3 :> "health potion")
    /\ Inventory = (0 :> <<3>>)
    /\ Explored = SeenFrom(<<0, 0>>)
    /\ FOV = SSCVisionMap(<<0, 0>>)
    /\ Log = <<>>
    /\ mode = "modeNormal"
    /\ targ = noTarget
    /\ pc = "idle"
    /\ todo = {}
    /\ caller = "none"
    /\ inputs = 0
    /\ trace = <<>>
    /\ Grid = Terrain
    /\ files = NoFiles
    /\ save = NoSave
    /\ NextID = MaxOf(DOMAIN Entities) + 1
    /\ Style = [i \in DOMAIN Name |-> NameStyle(Name[i])]

\* one call of PutStatus
PutKind(i, st, n) ==
  /\ trace = <<>>
  /\ UNCHANGED <<NextID, Style, files, save, Grid>>
  /\ Statuses' = PutStatus(Statuses, i, st, n)
  /\ trace' = <<PutKindEvent(i, st, n)>>
  /\ UNCHANGED <<Entities, Positions, Fighter, AI, Name, Inventory, Explored, FOV, Log,
                 mode, targ, pc, todo, caller, inputs>>

NextPut == \E i \in StatusEntities, st \in StatusKinds, n \in 0..MaxDuration : PutKind(i, st, n)

SpecPut == InitPut /\ [][NextPut]_vars

\* C21: PutStatus(i, st, n) leaves the counter of st on i at exactly n
\* whatever it was before, a second call with the same arguments changes
\* nothing, and the counters of the other kinds on i and of all kinds on the
\* other entities are unchanged.
C21_Step ==
  \A i \in StatusEntities, st \in StatusKinds, n \in 0..MaxDuration :
    trace' = <<PutKindEvent(i, st, n)>> =>
      /\ i \in DOMAIN Statuses' /\ st \in DOMAIN Statuses'[i]
      /\ Statuses'[i][st] = n
      /\ PutStatus(Statuses', i, st, n) = Statuses'
      /\ \A s \in StatusKinds \ {st} :
           /\ (Status(i, s) <=> (s \in DOMAIN Statuses'[i]))
           /\ Status(i, s) => Statuses'[i][s] = Statuses[i][s]
      /\ DOMAIN Statuses' = DOMAIN Statuses \cup {i}
      /\ \A j \in DOMAIN Statuses \ {i} : Statuses'[j] = Statuses[j]

C21_PutRefreshes == [][C21_Step]_vars

\* a status with 2 turns left has been put again for 1 turn and has 1 turn
\* left, while the other kind on the same entity has its 2 turns
C21_Witness ==
  /\ trace # <<>> /\ trace[1].op = "PutStatus"
  /\ trace[1].id = 1 /\ trace[1].st = StatusConfused
  /\ trace[1].had = 2 /\ trace[1].n = 1
  /\ Statuses[1][StatusConfused] = 1
  /\ Status(1, MaxStatus) /\ Statuses[1][MaxStatus] = 2

(***************************************************************************)
(* The registry under AddEntity, AddItem, RemoveEntity and the component   *)
(* assignments their callers make (NewGame, SpawnMonsters, InventoryAdd,   *)
(* PutStatus).                                                             *)
(***************************************************************************)
MaxCalls == 4

MaxIDs == 4

\* a faulty allocation that takes the least id no entity has: C22 fails with
\* it
FreshIDReused == CHOOSE i \in 0..NextID : i \notin DOMAIN Entities
                                         /\ \A j \in 0..(i - 1) : j \in DOMAIN Entities

\* id := es.NextID
FreshID == NextID

\* m[i] = v on a Go map
MapSet(m, i, v) == [j \in DOMAIN m \cup {i} |-> IF j = i THEN v ELSE m[j]]

\* delete(m, i) on a Go map
MapDelete(m, i) == [j \in DOMAIN m \ {i} |-> m[j]]

\* NewGame up to the creation of the player, the first entity
InitRegistry ==
  /\ Entities = (0 :> [kind |-> "Player"])
  /\ Positions = (0 :> <<0, 0>>)
  /\ Fighter = (0 :> PlayerFighter)
  /\ AI = <<>>
  /\ Name = (0 :> "player")
  /\ Style = (0 :> NameStyle("player"))
  /\ Inventory = (0 :> <<>>)
  /\ Statuses = <<>>
  /\ NextID = 1
  /\ Explored = SeenFrom(<<0, 0>>)
  /\ FOV = SSCVisionMap(<<0, 0>>)
  /\ Log = <<>>
  /\ mode = "modeNormal"
  /\ targ = noTarget
  /\ pc = "idle"
  /\ todo = {}
  /\ caller = "none"
  /\ inputs = 0
  /\ trace = <<>>
  /\ Grid = Terrain
  /\ files = NoFiles
  /\ save = NoSave

RegistryFrame == UNCHANGED <<Explored, FOV, Log, mode, targ, pc, todo, caller, inputs, files, save, Grid>>

\* SpawnMonsters, one monster: AddEntity, then its components
RegSpawn(sp, p) ==
  /\ Len(trace) < MaxCalls /\ NextID < MaxIDs
  /\ LET id == FreshID
     IN /\ Entities' = MapSet(Entities, id, [kind |-> "Monster"])
        /\ Positions' = MapSet(Positions, id, p)
        /\ NextID' = NextID + 1
        /\ Fighter' = MapSet(Fighter, id, SpeciesFighter(sp))
        /\ Name' = MapSet(Name, id, sp)
        /\ Style' = MapSet(Style, id, NameStyle(sp))
        /\ AI' = MapSet(AI, id, <<>>)
        /\ trace' = Append(trace, Event("AddEntity", id))
  /\ UNCHANGED <<Inventory, Statuses>>
  /\ RegistryFrame

\* AddItem: AddEntity, then name and style
RegAddItem(e, p) ==
  /\ Len(trace) < MaxCalls /\ NextID < MaxIDs
  /\ LET id == FreshID
     IN /\ Entities' = MapSet(Entities, id, e)
        /\ Positions' = MapSet(Positions, id, p)
        /\ NextID' = NextID + 1
        /\ Name' = MapSet(Name, id, ItemName(e))
        /\ Style' = MapSet(Style, id, NameStyle(ItemName(e)))
        /\ trace' = Append(trace, Event("AddEntity", id))
  /\ UNCHANGED <<Fighter, AI, Inventory, Statuses>>
  /\ RegistryFrame

\* InventoryAdd(PlayerID, i) of an item lying on the map
RegPickup(i) ==
  /\ Len(trace) < MaxCalls
  /\ PlayerID \in DOMAIN Inventory /\ ~InventoryFull(PlayerID)
  /\ IsConsumable(i) /\ i \in DOMAIN Positions
  /\ Inventory' = PickedInventory(i)
  /\ Positions' = PickedPositions(i)
  /\ trace' = Append(trace, Event("InventoryAdd", i))
  /\ UNCHANGED <<Entities, Fighter, AI, Name, Style, Statuses, NextID>>
  /\ RegistryFrame

\* PutStatus on a monster
RegPutStatus(i) ==
  /\ Len(trace) < MaxCalls
  /\ IsMonster(i)
  /\ Statuses' = PutStatus(Statuses, i, StatusConfused, MaxDuration)
  /\ trace' = Append(trace, Event("PutStatus", i))
  /\ UNCHANGED <<Entities, Positions, Fighter, AI, Name, Style, Inventory, NextID>>
  /\ RegistryFrame

\* RemoveEntity(i)
RegRemove(i) ==
  /\ Len(trace) < MaxCalls
  /\ Entities' = MapDelete(Entities, i)
  /\ Positions' = MapDelete(Positions, i)
  /\ Fighter' = MapDelete(Fighter, i)
  /\ AI' = MapDelete(AI, i)
  /\ Name' = MapDelete(Name, i)
  /\ Style' = MapDelete(Style, i)
  /\ Inventory' = MapDelete(Inventory, i)
  /\ Statuses' = MapDelete(Statuses, i)
  /\ trace' = Append(trace, Event("RemoveEntity", i))
  /\ UNCHANGED NextID
  /\ RegistryFrame

NextRegistry ==
  \/ \E sp \in Species : RegSpawn(sp, <<1, 0>>)
  \/ \E e \in {HealingPotion, ConfusionScroll} : RegAddItem(e, <<0, 0>>)
  \/ \E i \in DOMAIN Entities : RegPickup(i)
  \/ \E i \in DOMAIN Entities : RegPutStatus(i)
  \/ \E i \in 0..(MaxIDs - 1) : RegRemove(i)

SpecRegistry == InitRegistry /\ [][NextRegistry]_vars

\* the calls of AddEntity made so far
Adds == {k \in DOMAIN trace : trace[k].op = "AddEntity"}

\* the ids the component tables refer to: their keys and the items held
TableIDs ==
  DOMAIN Entities \cup DOMAIN Positions \cup DOMAIN Fighter \cup DOMAIN AI
    \cup DOMAIN Name \cup DOMAIN Style \cup DOMAIN Inventory \cup DOMAIN Statuses

HeldIDs == UNION {{Inventory[j][k] : k \in DOMAIN Inventory[j]} : j \in DOMAIN Inventory}

\* C22: across any interleaving of AddEntity and RemoveEntity, each AddEntity
\* returns an id greater than every id returned before, and NextID is greater
\* than every id present in a component table.
C22_FreshIDs ==
  /\ \A k, l \in Adds : k < l => trace[k].id < trace[l].id
  /\ \A k \in Adds : trace[k].id < NextID
  /\ \A i \in TableIDs \cup HeldIDs : i < NextID

\* an entity has been added, removed, and another one added after that: the
\* new id is greater than the removed one, which no table has
C22_Witness ==
  \E k, l, m \in DOMAIN trace :
    /\ k < l /\ l < m
    /\ trace[k].op = "AddEntity" /\ trace[l] = Event("RemoveEntity", trace[k].id)
    /\ trace[m].op = "AddEntity" /\ trace[m].id > trace[k].id
    /\ trace[k].id \notin TableIDs /\ trace[m].id \in DOMAIN Entities

\* C23 (the claim as stated): after RemoveEntity(i), i is a key of no
\* component table and appears in no inventory's list of items, also when i
\* was an item held in an inventory when it was removed.
C23_NoReferenceLeft ==
  (trace # <<>> /\ trace[Len(trace)].op = "RemoveEntity") =>
    /\ trace[Len(trace)].id \notin TableIDs
    /\ trace[Len(trace)].id \notin HeldIDs

\* C24: an inventory never holds more than 26 items; a pickup attempted with
\* 26 items held and an item on the player's cell fails with the message
\* 'Inventory is full.', leaves the item in the position table at its cell
\* and the inventory as it is, and ends no turn.
C24_Step ==
  (/\ pc = "idle" /\ mode = "modeNormal" /\ trace' # trace
   /\ trace'[1].op = "Pickup"
   /\ Len(Inventory[PlayerID]) = maxSize /\ ItemsHere # {}) =>
    /\ trace' = <<Event("Pickup", -1)>>
    /\ Inventory' = Inventory /\ Positions' = Positions
    /\ pc' = "idle" /\ todo' = {}
    /\ UNCHANGED <<Fighter, Statuses, AI, FOV, Explored>>
    /\ \E k \in DOMAIN Log' : /\ Log'[k].Text = <<"Could not pickup", "Inventory is full.">>
                              /\ LogCount(Log') > LogCount(Log)

C24_InventoryCap ==
  /\ [](\A i \in DOMAIN Inventory : Len(Inventory[i]) <= maxSize)
  /\ [][C24_Step]_vars

\* a pickup has failed on the full inventory: the 26 items are held, the item
\* lies on the player's cell and the message is the last of the log
C24_Witness ==
  /\ trace = <<Event("Pickup", -1)>> /\ pc = "idle"
  /\ Len(Inventory[PlayerID]) = maxSize /\ ItemsHere # {}
  /\ Log # <<>> /\ Log[Len(Log)].Text = <<"Could not pickup", "Inventory is full.">>

(***************************************************************************)
(* Rendering: ECS.RenderOrder, ECS.GetStyle and the map part of model.Draw. *)
(***************************************************************************)
RONone == 0
ROCorpse == 1
ROItem == 2
ROActor == 3

\* a faulty RenderOrder that gives a dead monster the priority of a living
\* one: C25 fails with it
RenderOrderFlat(i) ==
  CASE i \notin DOMAIN Entities -> RONone
    [] Entities[i].kind = "Player" -> ROActor
    [] Entities[i].kind = "Monster" -> ROActor
    [] OTHER -> ROItem

\* ECS.RenderOrder
RenderOrder(i) ==
  CASE i \notin DOMAIN Entities -> RONone
    [] Entities[i].kind = "Player" -> ROActor
    [] Entities[i].kind = "Monster" -> IF Dead(i) THEN ROCorpse ELSE ROActor
    [] OTHER -> ROItem

\* ECS.GetStyle, the rune: a dead fighter is shown as a corpse
GetStyle(i) == IF Dead(i) THEN "%" ELSE Style[i].Rune

\* Map.Rune
TileRune(p) == IF IsWall(p) THEN "#" ELSE "."

\* g.ECS.Positions[i] as Draw reads it: the zero point for an entity that has
\* no position
PositionRead(i) == IF i \in DOMAIN Positions THEN Positions[i] ELSE <<0, 0>>

\* the orders sort.Slice may leave the entities in: every arrangement of the
\* ids that does not decrease in RenderOrder (the sort is not stable and the
\* map is ranged over in any order)
SortedEntities ==
  LET n == Cardinality(DOMAIN Entities)
  IN {s \in [1..n -> DOMAIN Entities] :
        /\ \A k, l \in 1..n : k # l => s[k] # s[l]
        /\ \A k \in 1..(n - 1) : RenderOrder(s[k]) <= RenderOrder(s[k + 1])}

\* the runes of the map after Draw has drawn the tiles and then the entities
\* in the order s: the last entity drawn on a cell is the one that shows
DrawnGrid(s) ==
  [p \in GridRange |->
     LET at == {k \in DOMAIN s : PositionRead(s[k]) = p}
     IN IF p \in Explored /\ InFOV(p) /\ at # {} THEN GetStyle(s[MaxOf(at)])
        ELSE IF p \in Explored THEN TileRune(p)
        ELSE " "]

DrawEvent(g) == [op |-> "Draw", id |-> -1, grid |-> g]

\* the player alive or dead at the corner (0,0) or next to it, two monsters
\* each alive or dead, an item held or lying on the map and another item
\* lying on the map
InitRender ==
  \E pp \in {<<0, 0>>, <<1, 0>>}, php \in {30, 0}, hp1 \in {10, 0}, hp2 \in {16, -2},
     p1 \in {<<1, 0>>, <<0, 1>>}, p2 \in {<<0, 1>>, <<2, 0>>},
     at3 \in {<<>>, <<<<1, 0>>>>}, p4 \in {<<0, 0>>, <<1, 0>>, <<0, 1>>} :
    /\ (p1 = p2) => (hp1 <= 0 \/ hp2 <= 0)
    /\ (p1 = pp) => hp1 <= 0
    /\ Entities = (0 :> [kind |-> "Player"] @@ 1 :> [kind |-> "Monster"]
                   @@ 2 :> [kind |-> "Monster"] @@ 3 :> ConfusionScroll
                   @@ 4 :> HealingPotion)
    /\ Positions = (0 :> pp @@ 1 :> p1 @@ 2 :> p2 @@ 4 :> p4)
                     @@ [i \in {3 : k \in DOMAIN at3} |-> at3[1]]
    /\ Fighter = (0 :> [PlayerFighter EXCEPT !.HP = php]
                  @@ 1 :> [OrcFighter EXCEPT !.HP = hp1]
                  @@ 2 :> [TrollFighter EXCEPT !.HP = hp2])
    /\ AI = (1 :> <<>> @@ 2 :> <<>>)
    /\ Name = (0 :> "player" @@ 1 :> "orc" @@ 2 :> "troll" @@ 3 :> "confusion scroll"
               @@ 4 :> "health potion")
    /\ Style = [i \in DOMAIN Name |-> NameStyle(Name[i])]
    /\ Inventory = (0 :> IF at3 = <<>> THEN <<3>> ELSE <<>>)
    /\ Statuses = <<>>
    /\ NextID = 5
    /\ Explored = SeenFrom(pp)
    /\ FOV = SSCVisionMap(pp)
    /\ Log = <<>>
    /\ mode = "modeNormal"
    /\ targ = noTarget
    /\ pc = "idle"
    /\ todo = {}
    /\ caller = "none"
    /\ inputs = 0
    /\ trace = <<>>
    /\ Grid = Terrain
    /\ files = NoFiles
    /\ save = NoSave

\* model.Draw in the normal mode
Draw ==
  /\ trace = <<>> /\ mode = "modeNormal"
  /\ \E s \in SortedEntities : trace' = <<DrawEvent(DrawnGrid(s))>>
  /\ UNCHANGED <<Entities, Positions, Fighter, AI, Name, Style, Inventory, Statuses, NextID,
                 Explored, FOV, Log, mode, targ, pc, todo, caller, inputs, files, save, Grid>>

NextRender == Draw

SpecRender == InitRender /\ [][NextRender]_vars

\* the entities that have the cell p in the position table
EntitiesAt(p) == {i \in DOMAIN Positions : Positions[i] = p}

String(e) == IF e.Dups = 0 THEN [Text |-> e.Text, Count |-> 0]
             ELSE [Text |-> e.Text, Count |-> e.Dups]

\* the messages logged: the attack of either monster on the player and the
\* message of the player's death
LogTexts == {AttackText(1, PlayerID), AttackText(2, PlayerID), DiedText}

InitLog == InitStatus

\* game.Logf with the message text
Logf(text) ==
  /\ Len(trace) < MaxSteps
  /\ Log' = LogAdd(Log, text)
  /\ trace' = Append(trace, [op |-> "Logf", id |-> -1, text |-> text])
  /\ UNCHANGED <<Entities, Positions, Fighter, AI, Name, Style, Inventory, Statuses, NextID,
                 Explored, FOV, mode, targ, pc, todo, caller, inputs, files, save, Grid>>

NextLog == \E text \in LogTexts : Logf(text)

SpecLog == InitLog /\ [][NextLog]_vars

\* the number of times the last message logged has been logged in a row
LastRun ==
  LET n == Len(trace)
      same == {k \in 1..n : \A l \in k..n : trace[l].text = trace[n].text}
  IN Cardinality(same)

\* the number of runs of equal messages logged
Runs == Cardinality({k \in DOMAIN trace : k = 1 \/ trace[k].text # trace[k - 1].text})

\* C26 (the claim as stated): the log holds one entry for each run of equal
\* messages; the entry of a message logged k >= 2 times in a row is displayed
\* with the count k, and that of a message logged once without count.
C26_DuplicatesCounted ==
  trace # <<>> =>
    /\ Len(Log) = Runs
    /\ String(Log[Len(Log)]) =
         [Text |-> trace[Len(trace)].text, Count |-> IF LastRun >= 2 THEN LastRun ELSE 0]

(***************************************************************************)
(* SaveFile: the data is written to a temporary file, synced, closed, and  *)
(* the temporary file renamed to the final name.  Each step may fail, and  *)
(* the process may be interrupted between any two steps and in the middle  *)
(* of the write.                                                           *)
(***************************************************************************)
MaxData == 2

MaxSaves == 2

Bytes == {0, 1}

\* the contents a file may have: the byte strings of length MaxData at most
Contents == UNION {[1..n -> Bytes] : n \in 0..MaxData}

\* a faulty SaveFile that writes the data under the final name: C27 fails
\* with it
TempSaveFileInPlace(filename) == <<filename>>

\* filepath.Join(dataDir, "temp-"+filename)
TempSaveFile(filename) == <<"temp-", filename>>

\* filepath.Join(dataDir, filename)
SaveFileName(filename) == <<filename>>

\* the content of a file, in a sequence: empty when there is no such file
FileRead(name) == IF name \in DOMAIN files THEN <<files[name]>> ELSE <<>>

\* the game at the save: the registry NewGame leaves after creating the
\* player; the data directory before the first save holds no file, or a
\* previous save
InitSave ==
  \E old \in {<<>>} \cup {<<c>> : c \in Contents} :
    /\ files = [name \in {SaveFileName("save") : k \in DOMAIN old} |-> old[1]]
    /\ save = NoSave
    /\ Entities = (0 :> [kind |-> "Player"])
    /\ Positions = (0 :> <<0, 0>>)
    /\ Fighter = (0 :> PlayerFighter)
    /\ AI = <<>>
    /\ Name = (0 :> "player")
    /\ Style = (0 :> NameStyle("player"))
    /\ Inventory = (0 :> <<>>)
    /\ Statuses = <<>>
    /\ NextID = 1
    /\ Explored = SeenFrom(<<0, 0>>)
    /\ FOV = SSCVisionMap(<<0, 0>>)
    /\ Log = <<>>
    /\ mode = "modeNormal"
    /\ targ = noTarget
    /\ pc = "idle"
    /\ todo = {}
    /\ caller = "none"
    /\ inputs = 0
    /\ trace = <<>>
    /\ Grid = Terrain

SaveFrame ==
  UNCHANGED <<Entities, Positions, Fighter, AI, Name, Style, Inventory, Statuses, NextID,
              Explored, FOV, Log, mode, targ, pc, todo, caller, inputs, trace, Grid>>

\* no call of SaveFile is under way
SaveOver == save.pc \in {"none", "done", "failed"}

\* SaveFile("save", data) is called: prev is what the final name holds then
SaveCall(data) ==
  /\ SaveOver /\ save.n < MaxSaves
  /\ save' = [pc |-> "open", data |-> data, prev |-> FileRead(SaveFileName("save")),
              n |-> save.n + 1]
  /\ UNCHANGED files
  /\ SaveFrame

\* os.OpenFile with O_WRONLY|O_CREATE|O_TRUNC: the temporary file is created
\* or emptied
SaveOpen ==
  /\ save.pc = "open"
  /\ files' = MapSet(files, TempSaveFile("save"), <<>>)
  /\ save' = [save EXCEPT !.pc = "write"]
  /\ SaveFrame

\* f.Write, one byte reaching the file
SaveWrite ==
  /\ save.pc = "write"
  /\ LET name == TempSaveFile("save")
         got == Len(files[name])
     IN IF got < Len(save.data)
        THEN /\ files' = MapSet(files, name, Append(files[name], save.data[got + 1]))
             /\ UNCHANGED save
        ELSE /\ save' = [save EXCEPT !.pc = "sync"]
             /\ UNCHANGED files
  /\ SaveFrame

\* f.Sync
SaveSync ==
  /\ save.pc = "sync"
  /\ save' = [save EXCEPT !.pc = "close"]
  /\ UNCHANGED files
  /\ SaveFrame

\* f.Close
SaveClose ==
  /\ save.pc = "close"
  /\ save' = [save EXCEPT !.pc = "rename"]
  /\ UNCHANGED files
  /\ SaveFrame

\* os.Rename(f.Name(), saveFile): the final name takes the temporary file's
\* content in one step and the temporary name is gone
SaveRename ==
  /\ save.pc = "rename"
  /\ LET temp == TempSaveFile("save")
         moved == MapSet(files, SaveFileName("save"), files[temp])
     IN files' = IF temp = SaveFileName("save") THEN files ELSE MapDelete(moved, temp)
  /\ save' = [save EXCEPT !.pc = "done"]
  /\ SaveFrame

\* the step under way returns an error: SaveFile returns it
SaveError ==
  /\ save.pc \in {"open", "write", "sync", "close", "rename"}
  /\ save' = [save EXCEPT !.pc = "failed"]
  /\ UNCHANGED files
  /\ SaveFrame

\* the process is interrupted: nothing more is done
SaveInterrupted ==
  /\ save.pc \in {"open", "write", "sync", "close", "rename"}
  /\ save' = [save EXCEPT !.pc = "interrupted"]
  /\ UNCHANGED files
  /\ SaveFrame

NextSave ==
  \/ \E data \in Contents : SaveCall(data)
  \/ SaveOpen
  \/ SaveWrite
  \/ SaveSync
  \/ SaveClose
  \/ SaveRename
  \/ SaveError
  \/ SaveInterrupted

SpecSave == InitSave /\ [][NextSave]_vars

\* C27: at every point of SaveFile, also when a step has failed or the
\* process has been interrupted, the file under the final name holds the
\* complete previous content (or does not exist when there was none) or the
\* complete new data; when SaveFile has succeeded it holds the new data.
C27_SaveNeverCorrupts ==
  save.pc # "none" =>
    /\ FileRead(SaveFileName("save")) \in {save.prev, <<save.data>>}
    /\ save.pc = "done" => FileRead(SaveFileName("save")) = <<save.data>>
    /\ save.pc \in {"open", "write", "sync", "close", "rename", "failed"} =>
         FileRead(SaveFileName("save")) = save.prev

\* the process has been interrupted in the middle of the write, with a part
\* of the data in the temporary file, and the previous save is whole
C27_Witness ==
  /\ save.pc = "interrupted"
  /\ Len(save.data) = MaxData
  /\ TempSaveFile("save") \in DOMAIN files
  /\ Len(files[TempSaveFile("save")]) = 1
  /\ save.prev # <<>> /\ save.prev # <<save.data>>
  /\ FileRead(SaveFileName("save")) = save.prev

(***************************************************************************)
(* Saving and loading: EncodeGame and DecodeGame.  gob sends the exported  *)
(* fields of a struct and leaves out those that have the zero value, sends *)
(* a map that is not nil with all its elements, sends an interface value   *)
(* with the name its type was registered under, and the decoder starts     *)
(* from the zero value of every field.  rl.Grid, rl.FOV and                *)
(* paths.PathRange encode themselves (GobEncode / GobDecode).              *)
(***************************************************************************)
\* the fields of the entity types, all exported and all integers but the
\* player's FOV
KindFields(kind) ==
  CASE kind = "HealingPotion" -> {"Amount"}
    [] kind = "LightningScroll" -> {"Range", "Damage"}
    [] kind = "ConfusionScroll" -> {"Turns"}
    [] kind = "FireballScroll" -> {"Damage", "Radius"}
    [] OTHER -> {}

\* a faulty init that does not register the scrolls: C28 fails with it
GobRegisteredPartly == {"Player", "Monster", "HealingPotion"}

\* the types init registers with gob.Register
GobRegistered ==
  {"Player", "Monster", "HealingPotion", "LightningScroll", "ConfusionScroll", "FireballScroll"}

\* the struct v on the wire: its fields that are not zero
GobStruct(v, fields, zero) == [f \in {g \in fields : v[g] # zero} |-> v[f]]

\* the struct a wire value decodes to: zero for the fields that were not sent
GobFill(w, fields, zero) == [f \in fields |-> IF f \in DOMAIN w THEN w[f] ELSE zero]

FighterFields == {"HP", "MaxHP", "Power", "Defense"}

\* the game as the value EncodeGame is given: the exported fields of game,
\* ECS and Map, and the unexported random source of the map
GameValue ==
  [ECS |-> [Entities |-> Entities, Positions |-> Positions, Fighter |-> Fighter, AI |-> AI,
            Name |-> Name, Style |-> Style, Inventory |-> Inventory, Statuses |-> Statuses,
            NextID |-> NextID, PlayerID |-> PlayerID],
   Map |-> [Grid |-> Grid,
            Explored |-> Explored, rand |-> "seeded"],
   FOV |-> FOV,
   PR |-> GridRange,
   Log |-> Log]

\* an entity (an interface value) on the wire
EncodeEntity(e, fov) ==
  [name |-> e.kind,
   value |-> IF e.kind = "Player" THEN [FOV |-> fov]
             ELSE [f \in {g \in KindFields(e.kind) : e[g] # 0} |-> e[f]]]

DecodeEntity(w) ==
  [f \in KindFields(w.name) \cup {"kind"} |->
     IF f = "kind" THEN w.name ELSE IF f \in DOMAIN w.value THEN w.value[f] ELSE 0]

\* EncodeGame: nil and an error when a type is not registered, otherwise the
\* gob stream, compressed
EncodeGame(g) ==
  IF \E i \in DOMAIN g.ECS.Entities : g.ECS.Entities[i].kind \notin GobRegistered
  THEN [err |-> "type not registered for interface", gzip |-> <<>>]
  ELSE
  [err |-> "",
   gzip |->
     <<[ECS |-> [Entities |-> [i \in DOMAIN g.ECS.Entities |->
                                 EncodeEntity(g.ECS.Entities[i], g.FOV)],
                 Positions |-> g.ECS.Positions,
                 Fighter |-> [i \in DOMAIN g.ECS.Fighter |->
                                GobStruct(g.ECS.Fighter[i], FighterFields, 0)],
                 AI |-> [i \in DOMAIN g.ECS.AI |->
                           GobStruct([Path |-> g.ECS.AI[i]], {"Path"}, <<>>)],
                 Name |-> g.ECS.Name,
                 Style |-> g.ECS.Style,
                 Inventory |-> [i \in DOMAIN g.ECS.Inventory |->
                                  GobStruct([Items |-> g.ECS.Inventory[i]], {"Items"}, <<>>)],
                 Statuses |-> g.ECS.Statuses,
                 Ints |-> GobStruct(g.ECS, {"NextID", "PlayerID"}, 0)],
        Map |-> [Grid |-> g.Map.Grid, Explored |-> g.Map.Explored],
        PR |-> g.PR,
        Log |-> [k \in DOMAIN g.Log |->
                   [Text |-> g.Log[k].Text, Ints |-> GobStruct(g.Log[k], {"Dups"}, 0)]]]>>]

\* DecodeGame: the game decoded from the data; its random source is nil
DecodeGame(data) ==
  LET w == data.gzip[1]
      ints == GobFill(w.ECS.Ints, {"NextID", "PlayerID"}, 0)
      player == CHOOSE i \in DOMAIN w.ECS.Entities : w.ECS.Entities[i].name = "Player"
  IN [ECS |-> [Entities |-> [i \in DOMAIN w.ECS.Entities |-> DecodeEntity(w.ECS.Entities[i])],
               Positions |-> w.ECS.Positions,
               Fighter |-> [i \in DOMAIN w.ECS.Fighter |->
                              GobFill(w.ECS.Fighter[i], FighterFields, 0)],
               AI |-> [i \in DOMAIN w.ECS.AI |-> GobFill(w.ECS.AI[i], {"Path"}, <<>>).Path],
               Name |-> w.ECS.Name,
               Style |-> w.ECS.Style,
               Inventory |-> [i \in DOMAIN w.ECS.Inventory |->
                                GobFill(w.ECS.Inventory[i], {"Items"}, <<>>).Items],
               Statuses |-> w.ECS.Statuses,
               NextID |-> ints.NextID, PlayerID |-> ints.PlayerID],
      Map |-> [Grid |-> w.Map.Grid, Explored |-> w.Map.Explored, rand |-> "nil"],
      FOV |-> w.ECS.Entities[player].value.FOV,
      PR |-> w.PR,
      Log |-> [k \in DOMAIN w.Log |->
                 [Text |-> w.Log[k].Text, Dups |-> GobFill(w.Log[k].Ints, {"Dups"}, 0).Dups]]]

GenWidth == 3

GenHeight == 2

GenRange == (0 .. GenWidth - 1) \X (0 .. GenHeight - 1)

\* a faulty path.Neighbors that also steps along the diagonals: C29 fails
\* with it
GenNeighborsDiagonal(grid, q) ==
  {r \in DOMAIN grid : /\ Abs(r[1] - q[1]) <= 1 /\ Abs(r[2] - q[2]) <= 1 /\ r # q
                       /\ grid[r] = Floor}

\* path.Neighbors: the walkable cardinal neighbours of q
GenNeighbors(grid, q) ==
  {r \in DOMAIN grid : DistanceManhattan(q, r) = 1 /\ grid[r] = Floor}

\* pr.CCMap(&path{m}, freep): the cells reached from those of S
RECURSIVE CCMap(_, _)
CCMap(grid, S) ==
  LET more == S \cup UNION {GenNeighbors(grid, q) : q \in S}
  IN IF more = S THEN S ELSE CCMap(grid, more)

\* mgen.KeepCC(pr, freep, Wall): the cells outside the component become walls
KeepCC(grid, cc) == [p \in DOMAIN grid |-> IF p \in cc THEN grid[p] ELSE Wall]

GenerateEvent(freep) == [op |-> "Generate", id |-> -1, freep |-> freep, cave |-> Grid]

\* Generate after CellularAutomataCave
InitGenerate ==
  \E cave \in [GenRange -> {Wall, Floor}] :
    /\ \E p \in GenRange : cave[p] = Floor
    /\ Grid = cave
    /\ Entities = <<>>
    /\ Positions = <<>>
    /\ Fighter = <<>>
    /\ AI = <<>>
    /\ Name = <<>>
    /\ Style = <<>>
    /\ Inventory = <<>>
    /\ Statuses = <<>>
    /\ NextID = 0
    /\ files = NoFiles
    /\ save = NoSave
    /\ Explored = {}
    /\ FOV = {}
    /\ Log = <<>>
    /\ mode = "modeGameMenu"
    /\ targ = noTarget
    /\ pc = "idle"
    /\ todo = {}
    /\ caller = "none"
    /\ inputs = 0
    /\ trace = <<>>

\* the rest of Generate: RandomFloor, CCMap, KeepCC
Generate(freep) ==
  /\ trace = <<>>
  /\ Grid[freep] = Floor
  /\ Grid' = KeepCC(Grid, CCMap(Grid, {freep}))
  /\ trace' = <<GenerateEvent(freep)>>
  /\ UNCHANGED <<Entities, Positions, Fighter, AI, Name, Style, Inventory, Statuses, NextID,
                 files, save, Explored, FOV, Log, mode, targ, pc, todo, caller, inputs>>

NextGenerate == \E freep \in GenRange : Generate(freep)

SpecGenerate == InitGenerate /\ [][NextGenerate]_vars

\* q can be reached from p by steps between floor cells next to each other
RECURSIVE FloorReach(_, _)
FloorReach(S, n) ==
  IF n = 0 THEN S
  ELSE FloorReach(S \cup {r \in DOMAIN Grid : /\ Grid[r] = Floor
                                            /\ \E q \in S : DistanceManhattan(q, r) = 1},
                  n - 1)

\* C29: after Generate every floor cell is reachable from every other floor
\* cell by 4-directional steps through floor cells; the floor cells left are
\* those of the generated cave that could be reached from the sampled cell.
C29_MapConnected ==
  (trace # <<>> /\ trace[1].op = "Generate") =>
    LET floor == {p \in DOMAIN Grid : Grid[p] = Floor}
    IN /\ \A p \in floor : floor \subseteq FloorReach({p}, Cardinality(DOMAIN Grid))
       /\ trace[1].freep \in floor
       /\ \A p \in floor : trace[1].cave[p] = Floor
       /\ \A p \in DOMAIN Grid :
            (trace[1].cave[p] = Floor /\ p \notin floor) =>
              \A q \in floor : DistanceManhattan(p, q) # 1

\* Generate has turned a floor cell of the cave into a wall: it was cut off
\* from the sampled cell
C29_Witness ==
  /\ trace # <<>> /\ trace[1].op = "Generate"
  /\ \E p \in DOMAIN Grid : trace[1].cave[p] = Floor /\ Grid[p] = Wall
  /\ Cardinality({p \in DOMAIN Grid : Grid[p] = Floor}) >= 2

(***************************************************************************)
(* AstarPath with the aiPath policy, applied to any two floor cells and to *)
(* sets of cells holding a blocking entity.                                *)
(***************************************************************************)
AstarEvent(from, to, blocked, path) ==
  [op |-> "AstarPath", id |-> -1, from |-> from, to |-> to, blocked |-> blocked, path |-> path]

\* the sets of cells charged the blocked cost: none, the target, both ends
\* (a monster heading for the player), and one other cell
BlockedSets(from, to) == {{}, {to}, {from, to}} \cup {{c} : c \in FloorCells}

InitAstar == InitStatus

\* g.PR.AstarPath(aip, from, to)
Astar(from, to, blocked) ==
  /\ trace = <<>>
  /\ \E path \in AstarPath(from, to, blocked) :
       trace' = <<AstarEvent(from, to, blocked, path)>>
  /\ UNCHANGED <<Entities, Positions, Fighter, AI, Name, Style, Inventory, Statuses, NextID,
                 files, save, Grid, Explored, FOV, Log, mode, targ, pc, todo, caller, inputs>>

NextAstar ==
  \E from \in FloorCells, to \in FloorCells :
    \E blocked \in BlockedSets(from, to) : Astar(from, to, blocked)

SpecAstar == InitAstar /\ [][NextAstar]_vars

\* the floor cells at n cardinal steps at most from those of S
RECURSIVE Ball(_, _)
Ball(S, n) ==
  IF n = 0 THEN S
  ELSE Ball(S \cup {r \in FloorCells : \E q \in S : DistanceManhattan(q, r) = 1}, n - 1)

\* the 4-directional shortest-path distance between two floor cells
StepDistance(from, to) ==
  CHOOSE n \in 0..Cardinality(FloorCells) :
    /\ to \in Ball({from}, n)
    /\ n = 0 \/ to \notin Ball({from}, n - 1)

\* C30: between two floor cells of a map where no cell holds a blocking
\* entity, the path returned under the aiPath policy starts at the first
\* cell, ends at the second, and has as many steps as the 4-directional
\* shortest-path distance between them; the same holds when the two ends are
\* the only cells that hold a blocking entity.
C30_ShortestPath ==
  (trace # <<>> /\ trace[1].op = "AstarPath"
     /\ trace[1].blocked \subseteq {trace[1].from, trace[1].to}) =>
    LET path == trace[1].path
    IN /\ path # <<>>
       /\ path[1] = trace[1].from /\ path[Len(path)] = trace[1].to
       /\ \A k \in 1..(Len(path) - 1) :
            DistanceManhattan(path[k], path[k + 1]) = 1 /\ Walkable(path[k + 1])
       /\ Len(path) - 1 = StepDistance(trace[1].from, trace[1].to)

\* with no blocking entity, a path returned around the wall: more steps than
\* the Manhattan distance between its ends
C30_Witness ==
  /\ trace # <<>> /\ trace[1].op = "AstarPath"
  /\ trace[1].blocked = {}
  /\ Len(trace[1].path) - 1 > DistanceManhattan(trace[1].from, trace[1].to)
  /\ Len(trace[1].path) - 1 = StepDistance(trace[1].from, trace[1].to)

(***************************************************************************)
(* NewGame: the map is generated, then the player, the monsters and the    *)
(* items are placed on it one after the other.                             *)
(***************************************************************************)
\* number of monsters SpawnMonsters adds (the program adds 12)
numberOfMonsters == 2

\* number of items PlaceItems adds (the program adds 5)
numberOfItems == 1

\* the cells Map.RandomFloor can return: the floor cells (it loops for ever
\* on a grid without one)
RandomFloor == {p \in DOMAIN Grid : Grid[p] = Floor}

\* the cells game.FreeFloorTile can return: it loops until RandomFloor gives
\* a cell without blocking entity
FreeFloorTile == {p \in RandomFloor : NoBlockingEntityAt(p)}

\* SSCVisionMap on the generated grid
GridVision(grid, pp) ==
  {p \in DOMAIN grid : /\ Abs(p[1] - pp[1]) <= maxLOS /\ Abs(p[2] - pp[2]) <= maxLOS
                       /\ \A q \in DOMAIN grid : grid[q] = Wall => ~Crosses(pp, p, q)}

\* game.UpdateFOV on the grid of the state, for a player standing at pp
GridUpdateFOV(pp) ==
  LET lit == GridVision(Grid, pp)
  IN /\ FOV' = lit
     /\ Explored' = Explored \cup {q \in lit : DistanceManhattan(q, pp) <= maxLOS}

PlacedItems == {i \in DOMAIN Entities : IsConsumable(i)}

\* the entities NewGame has yet to place, the player being placed
Pending == (numberOfMonsters - Cardinality(Monsters)) + (numberOfItems - Cardinality(PlacedItems))

NewGameFrame == UNCHANGED <<Statuses, files, save, Grid, Log, targ, pc, todo, caller, inputs>>

\* NewGame after NewMap: NewECS, the player entity on a random floor cell,
\* UpdateFOV
NewGamePlayer(p) ==
  /\ mode = "modeGameMenu" /\ trace # <<>> /\ trace[1].op = "Generate"
  /\ p \in RandomFloor
  /\ Entities' = (FreshID :> [kind |-> "Player"])
  /\ Positions' = (FreshID :> p)
  /\ NextID' = NextID + 1
  /\ Fighter' = (FreshID :> PlayerFighter)
  /\ Style' = (FreshID :> NameStyle("player"))
  /\ Name' = (FreshID :> "player")
  /\ Inventory' = (FreshID :> <<>>)
  /\ AI' = <<>>
  /\ GridUpdateFOV(p)
  /\ trace' = <<Event("NewGame", FreshID)>>
  /\ UNCHANGED mode
  /\ NewGameFrame

\* one iteration of the loop of SpawnMonsters
SpawnMonster(sp, p) ==
  /\ mode = "modeGameMenu" /\ PlayerID \in DOMAIN Entities
  /\ Cardinality(Monsters) < numberOfMonsters
  /\ p \in FreeFloorTile
  /\ Entities' = MapSet(Entities, FreshID, [kind |-> "Monster"])
  /\ Positions' = MapSet(Positions, FreshID, p)
  /\ NextID' = NextID + 1
  /\ Fighter' = MapSet(Fighter, FreshID, SpeciesFighter(sp))
  /\ Name' = MapSet(Name, FreshID, sp)
  /\ Style' = MapSet(Style, FreshID, NameStyle(sp))
  /\ AI' = MapSet(AI, FreshID, <<>>)
  /\ trace' = Append(trace, Event("SpawnMonster", FreshID))
  /\ UNCHANGED <<Inventory, FOV, Explored, mode>>
  /\ NewGameFrame

\* one iteration of the loop of PlaceItems
PlaceItem(e, p) ==
  /\ mode = "modeGameMenu" /\ PlayerID \in DOMAIN Entities
  /\ Cardinality(Monsters) = numberOfMonsters
  /\ Cardinality(PlacedItems) < numberOfItems
  /\ p \in FreeFloorTile
  /\ Entities' = MapSet(Entities, FreshID, e)
  /\ Positions' = MapSet(Positions, FreshID, p)
  /\ NextID' = NextID + 1
  /\ Name' = MapSet(Name, FreshID, ItemName(e))
  /\ Style' = MapSet(Style, FreshID, NameStyle(ItemName(e)))
  /\ trace' = Append(trace, Event("PlaceItem", FreshID))
  /\ UNCHANGED <<Fighter, AI, Inventory, FOV, Explored, mode>>
  /\ NewGameFrame

\* NewGame returns and updateGameMenu enters the normal mode
NewGameReturn ==
  /\ mode = "modeGameMenu" /\ PlayerID \in DOMAIN Entities
  /\ Pending = 0
  /\ mode' = "modeNormal"
  /\ trace' = Append(trace, Event("NewGameReturn", -1))
  /\ UNCHANGED <<Entities, Positions, NextID, Fighter, Name, Style, AI, Inventory, FOV, Explored>>
  /\ NewGameFrame

NextNewGame ==
  \/ \E freep \in GenRange : Generate(freep)
  \/ \E p \in GenRange : NewGamePlayer(p)
  \/ \E sp \in Species, p \in GenRange : SpawnMonster(sp, p)
  \/ \E e \in {HealingPotion, ConfusionScroll, FireballScroll, LightningScroll}, p \in GenRange :
       PlaceItem(e, p)
  \/ NewGameReturn

SpecNewGame == InitGenerate /\ [][NextNewGame]_vars

\* C31: while NewGame has entities left to place, FreeFloorTile has a cell to
\* return: the generated map has a floor cell without blocking entity for each
\* monster and item, so that NewGame ends.
C31_FreeFloorTileReturns ==
  (mode = "modeGameMenu" /\ PlayerID \in DOMAIN Entities /\ Pending > 0) => FreeFloorTile # {}

\* C32 (the claim as stated): the turn of a monster that is not confused
\* leaves it where it is or moves it to a cardinal neighbour of its cell, also
\* after turns in which the monster was confused and kept its cached path.
C32_NoJump ==
  [][\A i \in Monsters :
       (MonsterTurn(i) /\ ~Status(i, StatusConfused) /\ Positions'[i] # Positions[i]) =>
         DistanceManhattan(Positions'[i], Positions[i]) = 1]_vars

\* C33 (the claim as stated): no message handled in the examination mode
\* changes a fighter, a position, a status or an inventory, or calls EndTurn.
C33_ExaminationReadOnly ==
  [][(mode = "modeExamination" /\ pc = "idle") =>
       (UNCHANGED <<Fighter, Positions, Statuses, Inventory>> /\ pc' = "idle")]_vars

\* C34: a fighter that is dead (HP <= 0) stays dead in every later state, and
\* neither the HP nor the position of a dead monster ever changes: its turn
\* does nothing, a bump at its cell is a move, and lightning and fireball
\* pass it over.
C34_Step ==
  /\ \A i \in DOMAIN Fighter : Dead(i) => Dead(i)'
  /\ \A i \in Monsters :
       Dead(i) => /\ Fighter'[i] = Fighter[i]
                  /\ i \in DOMAIN Positions' /\ Positions'[i] = Positions[i]

C34_DeathIsPermanent == [][C34_Step]_vars

\* a fireball has exploded on the troll with the orc's corpse within its
\* radius, then the corpse has had its turn, and the player has since walked
\* onto the corpse's cell
C34_Witness ==
  /\ Dead(1) /\ Fighter[1].HP = 0 /\ Fighter[2].HP < TrollFighter.HP
  /\ Positions[1] = <<1, 0>> /\ PP = <<1, 0>>
  /\ inputs = 2 /\ trace[1].op = "MovePlayer" /\ Acted(1)

\* this step handles an input message whose first event is ev
InputStep(ev) == pc = "idle" /\ trace' # trace /\ trace'[1] = ev

\* C35: an item is never both on the map and in an inventory and never fills
\* two inventory slots; a pickup takes it from the position table into the
\* inventory, a drop puts it back on the map at the player's cell, and a
\* successful activation leaves it in neither.
C35_State ==
  /\ \A i \in DOMAIN Entities : IsConsumable(i) => ~(i \in DOMAIN Positions /\ i \in HeldIDs)
  /\ \A j \in DOMAIN Inventory :
       \A k, l \in DOMAIN Inventory[j] : k # l => Inventory[j][k] # Inventory[j][l]
  /\ \A j, h \in DOMAIN Inventory :
       j # h => Held(Inventory[j]) \cap Held(Inventory[h]) = {}

C35_Step ==
  /\ \A i \in DOMAIN Entities :
       InputStep(Event("Pickup", i)) =>
         /\ i \in DOMAIN Positions /\ i \notin HeldIDs
         /\ i \notin DOMAIN Positions' /\ i \in Held(Inventory'[PlayerID])
  /\ \A i \in DOMAIN Entities :
       InputStep(Event("Drop", i)) =>
         /\ i \notin DOMAIN Positions /\ i \in Held(Inventory[PlayerID])
         /\ i \in DOMAIN Positions' /\ Positions'[i] = PP /\ i \notin HeldIDs'
  /\ \A n \in 0..(maxSize - 1) :
       InputStep(Event("Activate", n)) =>
         LET i == Inventory[PlayerID][n + 1]
         IN /\ i \notin DOMAIN Positions
            /\ i \notin DOMAIN Positions' /\ i \notin HeldIDs'
            /\ i \in DOMAIN Entities'

C35_ItemInOnePlace == [](C35_State) /\ [][C35_Step]_vars

\* the item the player held has been dropped, then picked up again
C35_Witness ==
  /\ inputs = 2 /\ trace[1] = Event("Pickup", 3)
  /\ Inventory[PlayerID] = <<3>> /\ 3 \notin DOMAIN Positions

\* number of calls of EndTurn recorded in the events t of a message
RECURSIVE EndTurns(_)
EndTurns(t) ==
  IF t = <<>> THEN 0 ELSE (IF Head(t).op = "UpdateFOV" THEN 1 ELSE 0) + EndTurns(Tail(t))

\* number of turns monster i has had in the events t
RECURSIVE TurnsOf(_, _)
TurnsOf(i, t) ==
  IF t = <<>> THEN 0 ELSE (IF Head(t) = Event("Monster", i) THEN 1 ELSE 0) + TurnsOf(i, Tail(t))

\* this step handles a message whose action succeeds: a bump that moves the
\* player or attacks, a wait, a pickup, a drop or an item use that goes through
Succeeds ==
  /\ pc = "idle" /\ trace' # trace
  /\ \/ mode = "modeNormal" /\ trace'[1].op = "Wait"
     \/ mode = "modeNormal" /\ (Positions'[PlayerID] # PP \/ Fighter' # Fighter)
     \/ mode = "modeNormal" /\ Len(Inventory'[PlayerID]) = Len(Inventory[PlayerID]) + 1
     \/ mode # "modeNormal" /\ Len(Inventory'[PlayerID]) = Len(Inventory[PlayerID]) - 1

\* C36: a message whose action succeeds calls EndTurn exactly once, no message
\* calls it twice, and in a pass that runs to its end every monster has had
\* exactly one turn.
C36_Step ==
  /\ Succeeds => (pc' = "range" /\ EndTurns(trace') = 1)
  /\ (pc = "range" /\ pc' = "idle" /\ trace'[Len(trace')].op = "StatusesNextTurn") =>
       \A i \in Monsters : TurnsOf(i, trace') = 1

C36_OneTurnPerAction == [](EndTurns(trace) <= 1) /\ [][C36_Step]_vars

\* a pickup has succeeded and its turn is over: both monsters have acted once
C36_Witness ==
  /\ pc = "idle" /\ trace # <<>> /\ trace[1].op = "Pickup" /\ trace[1].id = 4
  /\ 4 \in Held(Inventory[PlayerID])
  /\ trace[Len(trace)].op = "StatusesNextTurn"
  /\ EndTurns(trace) = 1 /\ TurnsOf(1, trace) = 1 /\ TurnsOf(2, trace) = 1

\* C37: once the mode is modeEnd no message changes the mode or any part of
\* the game (entities, map, log, targeting); the end mode is entered with
\* the scheduler at rest.
C37_Step ==
  mode = "modeEnd" =>
    UNCHANGED <<mode, Entities, Positions, Fighter, AI, Name, Style, Inventory, Statuses,
                NextID, Grid, Explored, FOV, Log, targ, pc, todo>>

C37_EndModeAbsorbing == [](mode = "modeEnd" => pc = "idle") /\ [][C37_Step]_vars

\* the player has died in the first turn and the end mode awaits a message
\* while the bound on the messages would allow another one
C37_Witness ==
  /\ mode = "modeEnd" /\ pc = "idle" /\ PlayerDied
  /\ inputs = 1 /\ inputs < MaxInputs /\ trace[1].op = "Wait"

(***************************************************************************)
(* The field of view on a map wider than maxLOS: a room with at most one   *)
(* pillar, in which the player walks alone.                                *)
(***************************************************************************)
FovWidth == 11

FovHeight == 2

FovRange == (0 .. FovWidth - 1) \X (0 .. FovHeight - 1)

Rooms == {[q \in FovRange |-> IF q \in W THEN Wall ELSE Floor] :
          W \in {{}} \cup {{w} : w \in FovRange}}

\* a game whose player stands alone at p in a room, after UpdateFOV
InitLook ==
  \E room \in Rooms, p \in FovRange :
    /\ room[p] = Floor
    /\ Grid = room
    /\ Entities = (PlayerID :> [kind |-> "Player"])
    /\ Positions = (PlayerID :> p)
    /\ Fighter = (PlayerID :> PlayerFighter)
    /\ AI = <<>>
    /\ Name = (PlayerID :> "player")
    /\ Style = (PlayerID :> NameStyle("player"))
    /\ Inventory = (PlayerID :> <<>>)
    /\ Statuses = <<>>
    /\ NextID = 1
    /\ files = NoFiles
    /\ save = NoSave
    /\ Explored = {q \in GridVision(room, p) : DistanceManhattan(q, p) <= maxLOS}
    /\ FOV = GridVision(room, p)
    /\ Log = <<>>
    /\ mode = "modeNormal"
    /\ targ = noTarget
    /\ pc = "idle"
    /\ todo = {}
    /\ caller = "none"
    /\ inputs = 0
    /\ trace = <<>>

\* ActionBump with direction d in a game without monster: game.Bump, and
\* EndTurn (UpdateFOV, a loop that meets no monster, StatusesNextTurn) when
\* the player moves
LookBump(d) ==
  /\ pc = "idle" /\ mode = "modeNormal"
  /\ LET to == Shift(PP, d)
     IN IF to \notin DOMAIN Grid \/ Grid[to] # Floor
        THEN /\ trace' = <<Event("Bump", -1)>>
             /\ UNCHANGED <<Positions, FOV, Explored>>
        ELSE /\ Positions' = [Positions EXCEPT ![PlayerID] = to]
             /\ GridUpdateFOV(to)
             /\ trace' = <<Event("MovePlayer", -1), Event("UpdateFOV", -1),
                           Event("StatusesNextTurn", -1)>>
  /\ UNCHANGED <<Entities, Fighter, AI, Name, Style, Inventory, Statuses, NextID, files,
                 save, Grid, Log, mode, targ, pc, todo, caller, inputs>>

NextLook == \E d \in CardinalDeltas : LookBump(d)

SpecLook == InitLook /\ [][NextLook]_vars

\* C38: when the game awaits a message, every cell for which InFOV is true
\* (lit by the last shadow casting and at Manhattan distance at most maxLOS
\* from the player's cell) is explored, and InFOV is false for every cell at
\* a greater Manhattan distance.
C38_FOVExplored ==
  pc = "idle" =>
    LET lit == GridVision(Grid, PP)
    IN /\ \A p \in DOMAIN Grid : InFOV(p) => p \in Explored
       /\ \A p \in DOMAIN Grid : DistanceManhattan(PP, p) > maxLOS => ~InFOV(p)
       /\ \A p \in DOMAIN Grid :
            InFOV(p) <=> (p \in lit /\ DistanceManhattan(PP, p) <= maxLOS)

\* the player has walked to a cell from which a cell is lit by the shadow
\* casting at a Manhattan distance greater than maxLOS, which has never been
\* explored
C38_Witness ==
  /\ trace # <<>> /\ trace[1].op = "MovePlayer"
  /\ \E p \in FOV : DistanceManhattan(PP, p) > maxLOS /\ p \notin Explored

\* C39: in every reachable state every entity with a position entry (the
\* player, the living monsters, the corpses, the items on the ground) stands
\* on a floor cell of the grid.
C39_OnFloor ==
  \A i \in DOMAIN Positions : Positions[i] \in DOMAIN Grid /\ Grid[Positions[i]] = Floor

\* the player has moved twice; the orc, confused, has made a diagonal step
\* from (1,0) to (2,1) in the first turn and, its confusion over, a step along
\* a path in the second
C39_Witness ==
  /\ inputs = 2 /\ pc = "range" /\ Acted(1) /\ Alive(1)
  /\ trace[1].op = "MovePlayer" /\ PP = <<0, 2>>
  /\ 1 \in DOMAIN Statuses /\ ~Status(1, StatusConfused)
  /\ Name[2] = "orc" /\ Positions[2] = <<2, 0>>
  /\ Positions[1] = <<2, 2>>

\* C40 (the claim as stated): Draw shows on a cell of the map the tile or an
\* entity whose position entry is that cell; an entity without position
\* entry (an item held or used up) shows on no cell, (0,0) included.
C40_OffMapNotDrawn ==
  (trace # <<>> /\ trace[1].op = "Draw") =>
    \A p \in GridRange :
      trace[1].grid[p] \in {" ", TileRune(p)} \cup {GetStyle(i) : i \in EntitiesAt(p)}

====
